---- MODULE Spec2Model ----
(***************************************************************************)
(* Replication slot management (slot.cpp): the shared slot table, the      *)
(* per-session current slot, the on-disk slot directories and the          *)
(* create / acquire / release / drop / save / checkpoint / startup         *)
(* operations, as a state machine.                                         *)
(*                                                                         *)
(* Processes are the sessions 1..NumSessions and the checkpointer Ckpt.    *)
(* Every process has a program counter pc, a return stack stk for the      *)
(* calls of CreateSlotOnDisk, SaveSlotToPath and the Compute* functions,   *)
(* and the local variables loc of the function it runs.  A section of code *)
(* that runs under ReplicationSlotControlLock or under a slot's spinlock   *)
(* without blocking inside is one step.  ReplicationSlotAllocationLock and *)
(* the per-slot io_in_progress_lock are held across steps and are state.   *)
(***************************************************************************)
EXTENDS Integers, Sequences, FiniteSets, TLC

\* ------------------------------------------------------------ bounds
MaxSlots == 2
NumSessions == 2
MaxFaults == 1
MaxKills == 1

Sessions == 1..NumSessions
Ckpt == NumSessions + 1
Procs == 1..Ckpt
NoProc == 0
Names == {"a", "b", "c"}

\* ------------------------------------------------------------ values
InvalidOid == 0
InvalidTransactionId == 0
InvalidXLogRecPtr == 0
SLOT_MAGIC == 17112225
ReplicationSlotOnDiskDynamicSize == 96

TransactionIdIsValid(x) == x # InvalidTransactionId

\* ReplicationSlotPersistentData of a zeroed table entry
ZeroData ==
    [name |-> "", database |-> InvalidOid, persistency |-> "RS_PERSISTENT",
     xmin |-> InvalidTransactionId, catalog_xmin |-> InvalidTransactionId,
     restart_lsn |-> InvalidXLogRecPtr, isDummyStandby |-> FALSE]

\* ReplicationSlot after the memset of ReplicationSlotsShmemInit
ZeroSlot ==
    [in_use |-> FALSE, active |-> FALSE, data |-> ZeroData,
     effective_xmin |-> InvalidTransactionId,
     effective_catalog_xmin |-> InvalidTransactionId,
     candidate_catalog_xmin |-> InvalidTransactionId,
     candidate_xmin_lsn |-> InvalidXLogRecPtr,
     candidate_restart_lsn |-> InvalidXLogRecPtr,
     candidate_restart_valid |-> InvalidXLogRecPtr,
     dirty |-> FALSE, just_dirtied |-> FALSE]

\* ------------------------------------------------------------ files
\* The checksum of the dynamic region (COMP_CRC32C over slotdata): a code
\* of the fields that differs whenever a field differs; 0 is no record's.
NameCode(n) == IF n = "a" THEN 1 ELSE IF n = "b" THEN 2 ELSE IF n = "c" THEN 3 ELSE 0

SlotCrc(d) ==
    1 + NameCode(d.name) + 4 * d.database
      + 8 * (IF d.persistency = "RS_PERSISTENT" THEN 0 ELSE 1)
      + 16 * (IF d.isDummyStandby THEN 1 ELSE 0)
      + 32 * d.restart_lsn + 128 * d.xmin + 2048 * d.catalog_xmin

NoFile == [st |-> "none", magic |-> 0, checksum |-> 0, version |-> 0,
           length |-> 0, slotdata |-> ZeroData]

\* a file opened with O_CREAT that nothing was written to
EmptyFile == [NoFile EXCEPT !.st = "empty"]

NoDir == [exists |-> FALSE, state |-> NoFile, backup |-> NoFile, tmp |-> NoFile]
EmptyDir == [NoDir EXCEPT !.exists = TRUE]

\* the record SaveSlotToPath builds from a copy of slot->data
OnDiskRecord(d) ==
    [st |-> "rec", magic |-> SLOT_MAGIC, checksum |-> SlotCrc(d), version |-> 1,
     length |-> ReplicationSlotOnDiskDynamicSize, slotdata |-> d]

\* the three checks of RestoreSlotFromDisk on a record that was read whole
RecordVerifies(f) ==
    /\ SlotCrc(f.slotdata) = f.checksum
    /\ f.magic = SLOT_MAGIC
    /\ f.length = ReplicationSlotOnDiskDynamicSize

\* ------------------------------------------------------------ state
VARIABLES
    slots,      \* ReplicationSlotCtl->replication_slots
    my,         \* t_thrd.slot_cxt.MyReplicationSlot of each process (0: NULL)
    pc,         \* where each process is
    stk,        \* return addresses of each process
    loc,        \* local variables of each process
    res,        \* what the last operation of each process reported
    allocEx,    \* holder of ReplicationSlotAllocationLock in exclusive mode
    allocSh,    \* holders of ReplicationSlotAllocationLock in shared mode
    ioLock,     \* holder of each slot's io_in_progress_lock
    dir,        \* pg_replslot/<name>
    tdir,       \* pg_replslot/<name>.tmp
    procXmin,   \* xmin published to the process array
    procCatXmin,\* catalog xmin published to the process array
    xlogMin,    \* minimum LSN published to the WAL module
    xlogMax,    \* maximum LSN published to the WAL module
    phase,      \* "run", "down" (killed), "startup", "panic"
    faults,     \* I/O failures injected so far
    kills,      \* process kills so far
    cfg,        \* the run's configuration: what the environment may do, the server mode,
                \* the size of the table
    hist        \* what the checked properties remember of the run

\* g_instance.attr.attr_storage.max_replication_slots: the size of the table
max_replication_slots == cfg.max_slots
SlotIds == 1..max_replication_slots

vars == <<slots, my, pc, stk, loc, res, allocEx, allocSh, ioLock, dir, tdir,
          procXmin, procCatXmin, xlogMin, xlogMax, phase, faults, kills, cfg, hist>>

LocInit ==
    [name |-> "", pers |-> "RS_PERSISTENT", dummy |-> FALSE, db |-> InvalidOid,
     lsn |-> InvalidXLogRecPtr, slot |-> 0, active |-> FALSE, renamed |-> FALSE,
     cod_slot |-> 0, cod_name |-> "", sv_slot |-> 0, sv_dir |-> "", sv_tmp |-> FALSE, sv_lvl |-> "ERROR",
     cp |-> ZeroData, i |-> 0, agg_a |-> 0, agg_b |-> 0, agg_c |-> FALSE, op |-> "",
     path |-> <<>>,     \* the lock events the operation has still to run
     held |-> <<>>]     \* the locks the process holds, in the order it took them

\* the report of an operation op on name n that has begun
Started(op, n) ==
    [status |-> "none", msgs |-> {}, op |-> op, name |-> n,
     note |-> "",       \* create: how the name was last removed, if no create came between;
                        \* release: "ephemeral" if the slot is dropped
     val |-> 0,         \* the value a function returned
     conc |-> {}]       \* create: the sessions whose create of the name was under way
                        \* with this one, the name not being in use nor dropped since

ResInit == Started("", "")

\* no record
NoData == ZeroData

HistInit ==
    [saved |-> [n \in Names |-> NoData],   \* the record the last rename put in <name>/state
     prev |-> [n \in Names |-> NoData],    \* the record that rename replaced
     found |-> [n \in Names |-> NoDir],    \* the directories as the last startup found them
     from |-> [n \in Names |-> "none"],    \* the file the last startup restored <name> from
     tried |-> {},                         \* the names whose restore warned and read the backup
     cut |-> {},                           \* the arguments of the creates the kill interrupted
                                           \* after they had picked an entry
     gone |-> [n \in Names |-> ""],        \* how <name> was removed, until a create scans
     last |-> [n \in Names |-> NoData],    \* slot->data when ReplicationSlotSave last returned
                                           \* without an error, until <name>/state is replaced
     fixed |-> [n \in Names |-> NoData],   \* the record a startup rewrote <name>/state with,
                                           \* until the file is replaced or damaged
     was |-> [n \in Names |-> NoData],     \* fixed, as it was before the last startup
     by |-> [n \in Names |-> NoProc],      \* the session whose create made <name> last
     marked |-> {},                        \* the savers whose slot was marked dirty since
                                           \* they read its dirty flag
     kill |-> [n \in Names |->             \* the save into <name> the kill interrupted
                 [at |-> "none", old |-> NoData, new |-> NoData]]]

\* the state after ReplicationSlotsShmemInit on an empty pg_replslot, in a
\* run with configuration c
InitWith(c) ==
    /\ slots = [i \in 1..c.max_slots |-> ZeroSlot]
    /\ my = [p \in Procs |-> 0]
    /\ pc = [p \in Procs |-> "idle"]
    /\ stk = [p \in Procs |-> <<>>]
    /\ loc = [p \in Procs |-> LocInit]
    /\ res = [p \in Procs |-> ResInit]
    /\ allocEx = NoProc
    /\ allocSh = {}
    /\ ioLock = [i \in 1..c.max_slots |-> NoProc]
    /\ dir = [n \in Names |-> NoDir]
    /\ tdir = [n \in Names |-> NoDir]
    /\ procXmin = InvalidTransactionId
    /\ procCatXmin = InvalidTransactionId
    /\ xlogMin = InvalidXLogRecPtr
    /\ xlogMax = InvalidXLogRecPtr
    /\ phase = "run"
    /\ faults = 0
    /\ kills = 0
    /\ cfg = c
    /\ hist = HistInit

\* ------------------------------------------------------------ control
Running(p) == phase = "run" /\ p \in Procs

\* the next statement, with the locals it leaves
Goto(p, l, newloc) ==
    /\ pc' = [pc EXCEPT ![p] = l]
    /\ loc' = [loc EXCEPT ![p] = newloc]
    /\ UNCHANGED stk

\* a call: the callee's first statement, the caller's next one on the stack
CallTo(p, l, ret, newloc) ==
    /\ pc' = [pc EXCEPT ![p] = l]
    /\ loc' = [loc EXCEPT ![p] = newloc]
    /\ stk' = [stk EXCEPT ![p] = <<ret>> \o @]

\* the operation returns to the session
Finish(p, msgs) ==
    /\ pc' = [pc EXCEPT ![p] = "idle"]
    /\ stk' = [stk EXCEPT ![p] = <<>>]
    /\ loc' = [loc EXCEPT ![p] = LocInit]
    /\ res' = [res EXCEPT ![p] =
                 [@ EXCEPT !.status = IF @ = "none" THEN "ok" ELSE @,
                           !.msgs = @ \cup msgs]]

\* return of a called function to its caller's next statement ("done": the
\* call was the operation's last statement)
Return(p, msgs) ==
    IF Head(stk[p]) = "done"
    THEN Finish(p, msgs)
    ELSE /\ pc' = [pc EXCEPT ![p] = Head(stk[p])]
         /\ stk' = [stk EXCEPT ![p] = Tail(@)]
         /\ res' = [res EXCEPT ![p].msgs = @ \cup msgs]
         /\ UNCHANGED loc

\* the locks an ERROR releases (LWLockReleaseAll of the abort path)
LocksReleased(p) ==
    /\ allocEx' = IF allocEx = p THEN NoProc ELSE allocEx
    /\ allocSh' = allocSh \ {p}
    /\ ioLock' = [i \in SlotIds |-> IF ioLock[i] = p THEN NoProc ELSE ioLock[i]]

\* ereport(ERROR): the operation is abandoned, the locks are released and a
\* session that still has a current slot releases it (ReplicationSlotRelease)
RaiseError(p, kind) ==
    /\ LocksReleased(p)
    /\ res' = [res EXCEPT ![p] = [@ EXCEPT !.status = "error", !.msgs = @ \cup {kind}]]
    /\ stk' = [stk EXCEPT ![p] = <<>>]
    /\ loc' = [loc EXCEPT ![p] = [LocInit EXCEPT !.op = IF my[p] # 0 THEN "abort" ELSE ""]]
    /\ pc' = [pc EXCEPT ![p] = IF my[p] # 0 THEN "rel" ELSE "idle"]

\* ereport(elevel) of SaveSlotToPath after it released the slot's
\* io_in_progress_lock, and its return: an ERROR abandons the operation, a
\* LOG goes back to the caller
Report(p, lvl, kind, s) ==
    IF lvl = "ERROR"
    THEN RaiseError(p, kind)
    ELSE /\ Return(p, {kind})
         /\ ioLock' = [ioLock EXCEPT ![s] = IF @ = p THEN NoProc ELSE @]
         /\ UNCHANGED <<allocEx, allocSh>>

\* the outcomes of a system call: it succeeds, or, while the environment
\* has failures left to inject, it fails
Outcomes == IF faults < cfg.faults THEN {"ok", "fail"} ELSE {"ok"}

\* the count of injected failures after a call with outcome o
Spend(o) == faults' = IF o = "ok" THEN faults ELSE faults + 1

disk == <<dir, tdir>>
locks == <<allocEx, allocSh, ioLock>>
published == <<procXmin, procCatXmin, xlogMin, xlogMax>>
env == <<phase, kills, cfg>>

\* ------------------------------------------------------------ create
\* a scan loop that matches no name
NoCollision(n) == FALSE

\* the name-collision test of the scan loop of ReplicationSlotCreate
NameCollision(n) == \E i \in SlotIds : slots[i].in_use /\ slots[i].data.name = n

\* a scan that takes the first entry when no entry is free
FirstFreeOrFirst ==
    IF \A i \in SlotIds : slots[i].in_use THEN CHOOSE i \in SlotIds : \A j \in SlotIds : i <= j
    ELSE CHOOSE i \in SlotIds :
            /\ ~slots[i].in_use
            /\ \A j \in SlotIds : ~slots[j].in_use => i <= j

\* the first entry with in_use = false (0: none), as the scan loops pick it
FirstFree ==
    IF \A i \in SlotIds : slots[i].in_use THEN 0
    ELSE CHOOSE i \in SlotIds :
            /\ ~slots[i].in_use
            /\ \A j \in SlotIds : ~slots[j].in_use => i <= j

\* the fields ReplicationSlotCreate initializes in the entry it picked
Populate(sl, n, pers, dummy, db, lsn) ==
    [sl EXCEPT !.data.persistency = pers,
               !.data.xmin = InvalidTransactionId,
               !.effective_xmin = InvalidTransactionId,
               !.data.name = n,
               !.data.database = db,
               !.data.restart_lsn = lsn,
               !.data.isDummyStandby = dummy]

\* the sessions inside ReplicationSlotCreate that have initialized an entry
\* and not yet returned
CreatingSlot ==
    {q \in Sessions : pc[q] # "idle" /\ res[q].op = "create" /\ res[q].status = "none"
                      /\ loc[q].cod_slot # 0}

\* the arguments session q called ReplicationSlotCreate with
CreateArgs(q) ==
    [name |-> loc[q].name, persistency |-> loc[q].pers, isDummyStandby |-> loc[q].dummy,
     database |-> loc[q].db, restart_lsn |-> loc[q].lsn]

\* the sessions whose create of name n has begun and not returned
Creating(n) ==
    {q \in Sessions : pc[q] # "idle" /\ res[q].op = "create" /\ res[q].name = n
                      /\ res[q].status = "none"}

\* ReplicationSlotCreate is called and waits for the allocation lock
CreateCall(s, n, pers, dummy, db, lsn) ==
    /\ Running(s) /\ s \in Sessions /\ pc[s] = "idle" /\ my[s] = 0
    /\ pc' = [pc EXCEPT ![s] = "cr_lock"]
    /\ loc' = [loc EXCEPT ![s] = [LocInit EXCEPT !.name = n, !.pers = pers, !.dummy = dummy,
                                                 !.db = db, !.lsn = lsn, !.op = "create"]]
    /\ LET with == IF NameCollision(n) THEN {} ELSE Creating(n)
       IN res' = [q \in Procs |->
                    IF q = s THEN [Started("create", n) EXCEPT !.conc = with]
                    ELSE IF q \in with THEN [res[q] EXCEPT !.conc = @ \cup {s}]
                    ELSE res[q]]
    /\ UNCHANGED <<slots, my, stk, locks, disk, published, env, faults, hist>>

\* ReplicationSlotCreate up to the call of CreateSlotOnDisk: the allocation
\* lock is taken, the table is scanned under the control lock, and the
\* entry found is initialized
ReplicationSlotCreate(s) ==
    /\ Running(s) /\ pc[s] = "cr_lock"
    /\ allocEx = NoProc /\ allocSh = {}
    /\ LET n == loc[s].name
       IN IF NameCollision(n)
          THEN /\ IF loc[s].db = InvalidOid
                  THEN \* WARNING, then ReplicationSlotAcquire(name, isDummyStandby)
                       /\ CallTo(s, "acq_scan", "done", loc[s])
                       /\ res' = [res EXCEPT ![s].msgs = {"DUPLICATE"}, ![s].note = hist.gone[n]]
                       /\ UNCHANGED locks
                  ELSE \* ERROR
                       RaiseError(s, "DUPLICATE")
               /\ UNCHANGED slots
          ELSE IF FirstFree = 0
          THEN /\ Goto(s, "cr_full", loc[s])
               /\ allocEx' = s
               /\ res' = [res EXCEPT ![s].note = hist.gone[n]]
               /\ UNCHANGED <<slots, allocSh, ioLock>>
          ELSE /\ slots' = [slots EXCEPT ![FirstFree] =
                              Populate(@, n, loc[s].pers, loc[s].dummy, loc[s].db, loc[s].lsn)]
               /\ CallTo(s, "cod_mkdir", "cr_flip",
                         [loc[s] EXCEPT !.slot = FirstFree, !.cod_slot = FirstFree])
               /\ allocEx' = s
               /\ res' = [res EXCEPT ![s].note = hist.gone[n]]
               /\ UNCHANGED <<allocSh, ioLock>>
    /\ hist' = [hist EXCEPT !.gone[loc[s].name] = ""]
    /\ UNCHANGED <<my, disk, published, env, faults>>

\* ReplicationSlotCreate, all entries in use: the control lock is released
\* and the error is raised
CreateFull(s) ==
    /\ Running(s) /\ pc[s] = "cr_full"
    /\ RaiseError(s, "CAPACITY")
    /\ UNCHANGED <<slots, my, disk, published, env, faults, hist>>

\* ReplicationSlotCreate after CreateSlotOnDisk: in_use and active are set
\* under the control lock, the slot becomes the session's, the locks go
CreateFlip(s) ==
    /\ Running(s) /\ pc[s] = "cr_flip"
    /\ slots' = [slots EXCEPT ![loc[s].slot].in_use = TRUE, ![loc[s].slot].active = TRUE]
    /\ my' = [my EXCEPT ![s] = loc[s].slot]
    /\ allocEx' = NoProc
    /\ Finish(s, {})
    /\ hist' = [hist EXCEPT !.by[loc[s].name] = s]
    /\ UNCHANGED <<allocSh, ioLock, disk, published, env, faults>>

\* ------------------------------------------------------------ CreateSlotOnDisk
\* a CreateSlotOnDisk that makes pg_replslot/<name> itself and writes the
\* state file there
CreateSlotInPlace(p) ==
    /\ Running(p) /\ pc[p] = "cod_mkdir"
    /\ LET sl == loc[p].cod_slot
           n == slots[sl].data.name
       IN /\ ~dir[n].exists
          /\ dir' = [dir EXCEPT ![n] = EmptyDir]
          /\ slots' = [slots EXCEPT ![sl].dirty = TRUE]
          /\ CallTo(p, "sv_check", "cod_rename",
                    [loc[p] EXCEPT !.cod_name = n, !.sv_slot = sl, !.sv_dir = n,
                                   !.sv_tmp = FALSE, !.sv_lvl = "ERROR"])
    /\ UNCHANGED <<my, tdir, res, locks, published, env, faults, hist>>

\* A leftover <name>.tmp is removed, <name>.tmp is made, the slot is marked
\* dirty and SaveSlotToPath writes it there.  rmtree or mkdir may fail.
CreateSlotOnDisk(p) ==
    /\ Running(p) /\ pc[p] = "cod_mkdir"
    /\ LET sl == loc[p].cod_slot
           n == slots[sl].data.name
       IN \E o \in Outcomes, w \in {"rmtree", "mkdir"} :
            /\ Spend(o)
            /\ IF o = "ok"
               THEN /\ w = "mkdir"
                    /\ tdir' = [tdir EXCEPT ![n] = EmptyDir]
                    /\ slots' = [slots EXCEPT ![sl].dirty = TRUE]
                    /\ CallTo(p, "sv_check", "cod_rename",
                              [loc[p] EXCEPT !.cod_name = n, !.sv_slot = sl, !.sv_dir = n,
                                             !.sv_tmp = TRUE, !.sv_lvl = "ERROR"])
                    /\ UNCHANGED <<res, locks>>
               ELSE /\ w = "rmtree" => tdir[n].exists
                    /\ tdir' = IF w = "mkdir" THEN [tdir EXCEPT ![n] = NoDir] ELSE tdir
                    /\ RaiseError(p, "IO")
                    /\ UNCHANGED slots
    /\ UNCHANGED <<my, dir, published, env, hist>>

\* CreateSlotOnDisk after the save: <name>.tmp is renamed to <name>, which
\* fails when <name> exists (it is never empty) or <name>.tmp is gone
CreateSlotRename(p) ==
    /\ Running(p) /\ pc[p] = "cod_rename"
    /\ LET n == loc[p].cod_name
           can == tdir[n].exists /\ ~dir[n].exists
       IN \E o \in Outcomes :
            /\ Spend(IF can THEN o ELSE "ok")
            /\ IF can /\ o = "ok"
               THEN /\ dir' = [dir EXCEPT ![n] = tdir[n]]
                    /\ tdir' = [tdir EXCEPT ![n] = NoDir]
                    /\ hist' = [hist EXCEPT !.prev[n] = NoData,
                                            !.saved[n] = tdir[n].state.slotdata,
                                            !.last[n] = NoData, !.fixed[n] = NoData]
                    /\ Return(p, {})
                    /\ UNCHANGED locks
               ELSE /\ RaiseError(p, IF can THEN "IO" ELSE "RENAME")
                    /\ UNCHANGED <<disk, hist>>
    /\ UNCHANGED <<slots, my, published, env>>


\* ------------------------------------------------------------ SaveSlotToPath
\* the directory SaveSlotToPath of process p writes into
SaveDir(p) == IF loc[p].sv_tmp THEN tdir[loc[p].sv_dir] ELSE dir[loc[p].sv_dir]

\* that directory becomes d
SaveDirSet(p, d) ==
    IF loc[p].sv_tmp
    THEN tdir' = [tdir EXCEPT ![loc[p].sv_dir] = d] /\ dir' = dir
    ELSE dir' = [dir EXCEPT ![loc[p].sv_dir] = d] /\ tdir' = tdir

\* what a write() that fails, or whose fsync fails, leaves in the file: the
\* whole record, or a part of it (no checksum matches)
FailedWrites(d) == {OnDiskRecord(d), [OnDiskRecord(d) EXCEPT !.checksum = 0]}

\* the processes inside a SaveSlotToPath of entry i that have read its dirty
\* flag
Savers(i) ==
    {q \in Procs : /\ pc[q] \in {"sv_open0", "sv_write0", "sv_open1", "sv_write1",
                                  "sv_rename", "sv_clear"}
                   /\ loc[q].sv_slot = i}

\* the history after ReplicationSlotMarkDirty on entry i
MarkNoted(i) == [hist EXCEPT !.marked = @ \cup Savers(i)]

\* the history when SaveSlotToPath of process p returns without an error:
\* if that ends a ReplicationSlotSave, slot->data is remembered
SaveNoted(p) ==
    IF Head(stk[p]) = "done" /\ res[p].op \in {"save", "persist"} /\ res[p].status = "none"
    THEN [hist EXCEPT !.last[loc[p].sv_dir] = slots[loc[p].sv_slot].data]
    ELSE hist

\* dirty is read and just_dirtied cleared under the spinlock; a slot that
\* is not dirty is not written
SaveCheck(p) ==
    /\ Running(p) /\ pc[p] = "sv_check"
    /\ LET sl == loc[p].sv_slot
       IN /\ slots' = [slots EXCEPT ![sl].just_dirtied = FALSE]
          /\ IF slots[sl].dirty
             THEN /\ Goto(p, "sv_open0", loc[p])
                  /\ hist' = [hist EXCEPT !.marked = @ \ {p}]
                  /\ UNCHANGED res
             ELSE /\ Return(p, {})
                  /\ hist' = [SaveNoted(p) EXCEPT !.marked = @ \ {p}]
    /\ UNCHANGED <<my, locks, disk, published, env, faults>>

\* io_in_progress_lock is taken and <dir>/state.backup opened (O_CREAT)
SaveOpenBackup(p) ==
    /\ Running(p) /\ pc[p] = "sv_open0"
    /\ LET sl == loc[p].sv_slot
           d == SaveDir(p)
       IN /\ ioLock[sl] = NoProc
          /\ \E o \in Outcomes :
               /\ Spend(IF d.exists THEN o ELSE "ok")
               /\ IF d.exists /\ o = "ok"
                  THEN /\ SaveDirSet(p, [d EXCEPT !.backup =
                                           IF @.st = "none" THEN EmptyFile ELSE @])
                       /\ ioLock' = [ioLock EXCEPT ![sl] = p]
                       /\ Goto(p, "sv_write0", loc[p])
                       /\ UNCHANGED <<res, allocEx, allocSh>>
                  ELSE /\ Report(p, loc[p].sv_lvl, IF d.exists THEN "IO" ELSE "ENOENT", sl)
                       /\ UNCHANGED disk
    /\ UNCHANGED <<slots, my, published, env, hist>>

\* slot->data is copied under the spinlock, the record is written to the
\* open file and fsynced; a failure releases the lock and is reported
SaveWriteFile(p, here, file, next) ==
    /\ Running(p) /\ pc[p] = here
    /\ LET sl == loc[p].sv_slot
           d == SaveDir(p)
           cp == slots[sl].data
       IN \E o \in Outcomes :
            /\ Spend(o)
            /\ IF o = "ok"
               THEN /\ SaveDirSet(p, IF d.exists THEN [d EXCEPT ![file] = OnDiskRecord(cp)]
                                     ELSE d)
                    /\ Goto(p, next, [loc[p] EXCEPT !.cp = cp])
                    /\ UNCHANGED <<res, locks>>
               ELSE /\ \E f \in FailedWrites(cp) :
                         SaveDirSet(p, IF d.exists THEN [d EXCEPT ![file] = f] ELSE d)
                    /\ Report(p, loc[p].sv_lvl, "IO", sl)
    /\ UNCHANGED <<slots, my, published, env, hist>>

SaveWriteBackup(p) == SaveWriteFile(p, "sv_write0", "backup", "sv_open1")

\* a save whose second write goes to state.backup again
SaveWriteTwice(p) == SaveWriteFile(p, "sv_write1", "backup", "sv_rename")

\* <dir>/state.tmp is opened (O_CREAT)
SaveOpenTmp(p) ==
    /\ Running(p) /\ pc[p] = "sv_open1"
    /\ LET sl == loc[p].sv_slot
           d == SaveDir(p)
       IN \E o \in Outcomes :
            /\ Spend(IF d.exists THEN o ELSE "ok")
            /\ IF d.exists /\ o = "ok"
               THEN /\ SaveDirSet(p, [d EXCEPT !.tmp =
                                        IF @.st = "none" THEN EmptyFile ELSE @])
                    /\ Goto(p, "sv_write1", loc[p])
                    /\ UNCHANGED <<res, locks>>
               ELSE /\ Report(p, loc[p].sv_lvl, IF d.exists THEN "IO" ELSE "ENOENT", sl)
                    /\ UNCHANGED disk
    /\ UNCHANGED <<slots, my, published, env, hist>>

SaveWriteTmp(p) == SaveWriteFile(p, "sv_write1", "tmp", "sv_rename")

\* the flags after a save that wrote: dirty is cleared unless the slot was
\* dirtied again since SaveCheck
SavedFlags(sl) == IF sl.just_dirtied THEN sl ELSE [sl EXCEPT !.dirty = FALSE]

\* state.tmp is renamed to state
SaveRename(p) ==
    /\ Running(p) /\ pc[p] = "sv_rename"
    /\ LET sl == loc[p].sv_slot
           d == SaveDir(p)
           can == d.exists /\ d.tmp.st # "none"
       IN \E o \in Outcomes :
            /\ Spend(IF can THEN o ELSE "ok")
            /\ IF can /\ o = "ok"
               THEN /\ SaveDirSet(p, [d EXCEPT !.state = d.tmp, !.tmp = NoFile])
                    /\ hist' = IF loc[p].sv_tmp THEN hist
                               ELSE [hist EXCEPT !.prev[loc[p].sv_dir] = hist.saved[loc[p].sv_dir],
                                                 !.saved[loc[p].sv_dir] = d.tmp.slotdata,
                                                 !.last[loc[p].sv_dir] = NoData,
                                                 !.fixed[loc[p].sv_dir] = NoData]
                    /\ Goto(p, "sv_clear", loc[p])
                    /\ UNCHANGED <<res, locks>>
               ELSE /\ Report(p, loc[p].sv_lvl, IF can THEN "IO" ELSE "ENOENT", sl)
                    /\ UNCHANGED <<disk, hist>>
    /\ UNCHANGED <<slots, my, published, env>>

\* the files are fsynced, dirty is cleared under the spinlock unless
\* just_dirtied, the lock is released
SaveClear(p) ==
    /\ Running(p) /\ pc[p] = "sv_clear"
    /\ slots' = [slots EXCEPT ![loc[p].sv_slot] = SavedFlags(@)]
    /\ ioLock' = [ioLock EXCEPT ![loc[p].sv_slot] = NoProc]
    /\ Return(p, {})
    /\ hist' = [SaveNoted(p) EXCEPT !.marked = @ \ {p}]
    /\ UNCHANGED <<my, allocEx, allocSh, disk, published, env, faults>>


\* ------------------------------------------------------------ aggregates
\* TransactionIdPrecedes on XidBits-bit transaction ids: a precedes b when
\* the signed difference a - b is negative
XidBits == 3
XidModulus == 2 ^ XidBits
TransactionIdPrecedes(a, b) == ((a - b) % XidModulus) >= XidModulus \div 2

\* a scan loop that does not skip the entries that are not in use
RECURSIVE XminScanAll(_, _, _)
XminScanAll(i, agg, which) ==
    IF i > max_replication_slots THEN agg
    ELSE LET x == IF which = "xmin" THEN slots[i].effective_xmin
                  ELSE slots[i].effective_catalog_xmin
             take == /\ TransactionIdIsValid(x)
                     /\ (~TransactionIdIsValid(agg) \/ TransactionIdPrecedes(x, agg))
         IN XminScanAll(i + 1, IF take THEN x ELSE agg, which)

\* a scan loop that keeps the value no other one comes after
RECURSIVE XminScanNewest(_, _, _)
XminScanNewest(i, agg, which) ==
    IF i > max_replication_slots THEN agg
    ELSE LET x == IF which = "xmin" THEN slots[i].effective_xmin
                  ELSE slots[i].effective_catalog_xmin
             take == /\ slots[i].in_use
                     /\ TransactionIdIsValid(x)
                     /\ (~TransactionIdIsValid(agg) \/ TransactionIdPrecedes(agg, x))
         IN XminScanNewest(i + 1, IF take THEN x ELSE agg, which)

\* the scan loop of ReplicationSlotsComputeRequiredXmin from entry i on,
\* for effective_xmin (which = "xmin") or effective_catalog_xmin
RECURSIVE XminScan(_, _, _)
XminScan(i, agg, which) ==
    IF i > max_replication_slots THEN agg
    ELSE LET x == IF which = "xmin" THEN slots[i].effective_xmin
                  ELSE slots[i].effective_catalog_xmin
             take == /\ slots[i].in_use
                     /\ TransactionIdIsValid(x)
                     /\ (~TransactionIdIsValid(agg) \/ TransactionIdPrecedes(x, agg))
         IN XminScan(i + 1, IF take THEN x ELSE agg, which)

\* a scan loop that counts every entry in use, whatever the server mode
LsnCountedAlways(i) == slots[i].in_use

\* whether the scan loop of ReplicationSlotsComputeRequiredLSN counts entry i
LsnCounted(i) ==
    /\ ~(/\ cfg.server_mode # "PRIMARY_MODE"
         /\ cfg.server_mode # "PENDING_MODE"
         /\ slots[i].data.database = InvalidOid)
    /\ slots[i].in_use

\* the scan loop of ReplicationSlotsComputeRequiredLSN from entry i on:
\* <<min_required, max_required, in_use>>
RECURSIVE LsnScan(_, _)
LsnScan(i, acc) ==
    IF i > max_replication_slots THEN acc
    ELSE LET lsn == slots[i].data.restart_lsn
             mn == IF /\ lsn # InvalidXLogRecPtr
                      /\ (acc[1] = InvalidXLogRecPtr \/ lsn < acc[1])
                   THEN lsn ELSE acc[1]
             mx == IF acc[2] < lsn THEN lsn ELSE acc[2]
         IN LsnScan(i + 1, IF LsnCounted(i) THEN <<mn, mx, TRUE>> ELSE acc)

\* Assert(cond): whether it stops the process.  It never does when cond
\* holds; when it does not, it does in a build with assertions only.
AssertTraps(cond) == IF cond THEN {FALSE} ELSE BOOLEAN

\* ReplicationSlotsComputeRequiredXmin: the assertion that the table exists
\* (ReplicationSlotsShmemInit leaves ReplicationSlotCtl NULL when
\* max_replication_slots is 0) and the scan under the control lock
ComputeXminScan(p) ==
    /\ Running(p) /\ pc[p] = "cx_scan"
    /\ \E trap \in AssertTraps(max_replication_slots # 0) :
         IF trap
         THEN RaiseError(p, "ASSERT")
         ELSE /\ Goto(p, "cx_pub", [loc[p] EXCEPT
                            !.agg_a = XminScan(1, InvalidTransactionId, "xmin"),
                            !.agg_b = XminScan(1, InvalidTransactionId, "catalog")])
              /\ UNCHANGED <<res, locks>>
    /\ UNCHANGED <<slots, my, disk, published, env, faults, hist>>

\* ... and ProcArraySetReplicationSlotXmin
ComputeXminPublish(p) ==
    /\ Running(p) /\ pc[p] = "cx_pub"
    /\ procXmin' = loc[p].agg_a
    /\ procCatXmin' = loc[p].agg_b
    /\ Return(p, {})
    /\ UNCHANGED <<slots, my, locks, disk, xlogMin, xlogMax, env, faults, hist>>

\* ReplicationSlotsComputeRequiredLSN: the return when max_replication_slots
\* is 0, else the scan under the control lock
ComputeLsnScan(p) ==
    /\ Running(p) /\ pc[p] = "cl_scan"
    /\ IF max_replication_slots = 0
       THEN Return(p, {})
       ELSE LET r == LsnScan(1, <<InvalidXLogRecPtr, InvalidXLogRecPtr, FALSE>>)
            IN /\ Goto(p, "cl_pub", [loc[p] EXCEPT !.agg_a = r[1], !.agg_b = r[2],
                                                    !.agg_c = r[3]])
               /\ UNCHANGED res
    /\ UNCHANGED <<slots, my, locks, disk, published, env, faults, hist>>

\* ... and XLogSetReplicationSlotMinimumLSN / MaximumLSN; a caller that
\* gave a repl_slt_state gets min_required, max_required and exist_in_use
ComputeLsnPublish(p) ==
    /\ Running(p) /\ pc[p] = "cl_pub"
    /\ xlogMin' = loc[p].agg_a
    /\ xlogMax' = loc[p].agg_b
    /\ IF res[p].op = "lsn_state"
       THEN /\ pc' = [pc EXCEPT ![p] = "idle"]
            /\ stk' = [stk EXCEPT ![p] = <<>>]
            /\ res' = [res EXCEPT ![p] =
                         [@ EXCEPT !.status = "ok",
                                   !.val = [min_required |-> loc[p].agg_a,
                                            max_required |-> loc[p].agg_b,
                                            exist_in_use |-> loc[p].agg_c]]]
            /\ loc' = [loc EXCEPT ![p] = LocInit]
       ELSE Return(p, {})
    /\ UNCHANGED <<slots, my, locks, disk, procXmin, procCatXmin, env, faults, hist>>

\* ------------------------------------------------------------ acquire
\* the entry the scan loops of ReplicationSlotAcquire and ReplicationSlotFind
\* stop at: the first one in use with the name (0: none)
FindSlot(n) ==
    IF \E i \in SlotIds : slots[i].in_use /\ slots[i].data.name = n
    THEN CHOOSE i \in SlotIds :
            /\ slots[i].in_use /\ slots[i].data.name = n
            /\ \A j \in SlotIds : (slots[j].in_use /\ slots[j].data.name = n) => i <= j
    ELSE 0

ReplicationSlotFind(n) == FindSlot(n) # 0

\* the scan of ReplicationSlotAcquire under the control lock: the entry's
\* active flag is read and set under its spinlock
AcquireScan(p, n, dummy, oper) ==
    LET i == FindSlot(n)
    IN /\ slots' = IF i = 0 THEN slots ELSE [slots EXCEPT ![i].active = TRUE]
       /\ pc' = [pc EXCEPT ![p] = "acq_check"]
       /\ loc' = [loc EXCEPT ![p] =
                    [LocInit EXCEPT !.name = n, !.dummy = dummy, !.slot = i, !.op = oper,
                                    !.active = IF i = 0 THEN FALSE ELSE slots[i].active]]

\* an acquire that only warns, whatever the slot
NeverRefused(sl, dummy) == FALSE

\* whether an acquire that found the slot active is refused with an ERROR
AcquireRefused(sl, dummy) ==
    sl.data.database # InvalidOid \/ dummy # sl.data.isDummyStandby

ClearCandidates(sl) ==
    [sl EXCEPT !.candidate_restart_lsn = InvalidXLogRecPtr,
               !.candidate_restart_valid = InvalidXLogRecPtr,
               !.candidate_xmin_lsn = InvalidXLogRecPtr,
               !.candidate_catalog_xmin = InvalidTransactionId]

ReplicationSlotAcquire(s, n, dummy) ==
    /\ Running(s) /\ s \in Sessions /\ pc[s] = "idle" /\ my[s] = 0
    /\ AcquireScan(s, n, dummy, "acquire")
    /\ stk' = [stk EXCEPT ![s] = <<"done">>]
    /\ res' = [res EXCEPT ![s] = Started("acquire", n)]
    /\ UNCHANGED <<my, locks, disk, published, env, faults, hist>>

\* the ReplicationSlotAcquire that ReplicationSlotCreate calls after the
\* WARNING for a physical slot that already exists
AcquireAfterDuplicate(s) ==
    /\ Running(s) /\ pc[s] = "acq_scan"
    /\ AcquireScan(s, loc[s].name, loc[s].dummy, "create")
    /\ UNCHANGED <<stk, res, my, locks, disk, published, env, faults, hist>>

\* ReplicationSlotAcquire after the scan: no slot and an active slot are
\* reported, the candidates of a logical slot are reset, the slot becomes
\* the session's
AcquireCheck(s) ==
    /\ Running(s) /\ pc[s] = "acq_check"
    /\ LET i == loc[s].slot
       IN IF i = 0
          THEN /\ RaiseError(s, "NOT_FOUND")
               /\ UNCHANGED <<slots, my>>
          ELSE IF loc[s].active /\ AcquireRefused(slots[i], loc[s].dummy)
          THEN /\ RaiseError(s, "IN_USE")
               /\ UNCHANGED <<slots, my>>
          ELSE /\ slots' = IF slots[i].data.database # InvalidOid
                           THEN [slots EXCEPT ![i] = ClearCandidates(@)]
                           ELSE slots
               /\ my' = [my EXCEPT ![s] = i]
               /\ Return(s, IF loc[s].active THEN {"IN_USE_WARNING"} ELSE {})
               /\ UNCHANGED locks
    /\ UNCHANGED <<disk, published, env, faults, hist>>


\* ------------------------------------------------------------ release
\* ReplicationSlotRelease up to the xmin test: no slot or an inactive one
\* only clears the session's reference, an ephemeral slot is dropped, a
\* persistent one is marked inactive under its spinlock
ReleaseBody(s, r) ==
    LET i == my[s]
    IN IF i = 0 \/ ~slots[i].active
       THEN /\ my' = [my EXCEPT ![s] = 0]
            /\ pc' = [pc EXCEPT ![s] = "idle"]
            /\ stk' = [stk EXCEPT ![s] = <<>>]
            /\ loc' = [loc EXCEPT ![s] = LocInit]
            /\ res' = [res EXCEPT ![s] = [r EXCEPT !.status = IF @ = "none" THEN "ok" ELSE @]]
            /\ UNCHANGED slots
       ELSE /\ res' = [res EXCEPT ![s] =
                         IF /\ slots[i].data.persistency = "RS_EPHEMERAL" /\ r.op = "release"
                            /\ hist.by[slots[i].data.name] = s
                         THEN [r EXCEPT !.note = "ephemeral"] ELSE r]
            /\ UNCHANGED my
            /\ IF slots[i].data.persistency = "RS_EPHEMERAL"
               THEN /\ CallTo(s, "da_lock", "rel_xmin", [loc[s] EXCEPT !.slot = i])
                    /\ UNCHANGED slots
               ELSE /\ slots' = [slots EXCEPT ![i].active = FALSE]
                    /\ Goto(s, "rel_xmin", [loc[s] EXCEPT !.slot = i])

ReplicationSlotRelease(s) ==
    /\ Running(s) /\ s \in Sessions /\ pc[s] = "idle" /\ my[s] # 0
    /\ ReleaseBody(s, Started("release", slots[my[s]].data.name))
    /\ UNCHANGED <<locks, disk, published, env, faults, hist>>

\* the ReplicationSlotRelease of a session whose operation raised an ERROR
\* while it had a current slot
AbortRelease(s) ==
    /\ Running(s) /\ pc[s] = "rel"
    /\ ReleaseBody(s, res[s])
    /\ UNCHANGED <<locks, disk, published, env, faults, hist>>

\* ReplicationSlotRelease: a slot whose xmin is invalid and whose
\* effective_xmin is valid loses the latter, and the xmin is recomputed
ReleaseXmin(s) ==
    /\ Running(s) /\ pc[s] = "rel_xmin"
    /\ LET i == loc[s].slot
       IN IF /\ ~TransactionIdIsValid(slots[i].data.xmin)
             /\ TransactionIdIsValid(slots[i].effective_xmin)
          THEN /\ slots' = [slots EXCEPT ![i].effective_xmin = InvalidTransactionId]
               /\ CallTo(s, "cx_scan", "rel_fin", loc[s])
          ELSE /\ Goto(s, "rel_fin", loc[s])
               /\ UNCHANGED slots
    /\ UNCHANGED <<my, res, locks, disk, published, env, faults, hist>>

\* ReplicationSlotRelease: the session's reference is cleared
ReleaseFinish(s) ==
    /\ Running(s) /\ pc[s] = "rel_fin"
    /\ my' = [my EXCEPT ![s] = 0]
    /\ Finish(s, {})
    /\ UNCHANGED <<slots, locks, disk, published, env, faults, hist>>

\* ------------------------------------------------------------ drop
\* ReplicationSlotDrop: the slot is acquired, then dropped
ReplicationSlotDrop(s, n) ==
    /\ Running(s) /\ s \in Sessions /\ pc[s] = "idle" /\ my[s] = 0
    /\ AcquireScan(s, n, FALSE, "drop")
    /\ stk' = [stk EXCEPT ![s] = <<"da_lock", "done">>]
    /\ res' = [res EXCEPT ![s] = Started("drop", n)]
    /\ UNCHANGED <<my, locks, disk, published, env, faults, hist>>

\* ReplicationSlotDropAcquired: the slot is detached from the session, the
\* allocation lock taken and the path names made from the slot's name
DropAcquiredLock(s) ==
    /\ Running(s) /\ pc[s] = "da_lock"
    /\ allocEx = NoProc /\ allocSh = {}
    /\ allocEx' = s
    /\ my' = [my EXCEPT ![s] = 0]
    /\ Goto(s, "da_rename", [loc[s] EXCEPT !.slot = my[s], !.name = slots[my[s]].data.name])
    /\ UNCHANGED <<slots, res, allocSh, ioLock, disk, published, env, faults, hist>>

\* whether a failed rename of the slot directory only warns
FailSoftly(sl) == sl.data.persistency = "RS_EPHEMERAL"

\* ReplicationSlotDropAcquired: <name> is renamed to <name>.tmp; if that
\* fails the slot is marked inactive and a WARNING or an ERROR is reported
DropAcquiredRename(s) ==
    /\ Running(s) /\ pc[s] = "da_rename"
    /\ LET n == loc[s].name
           i == loc[s].slot
           can == dir[n].exists /\ ~tdir[n].exists
       IN \E o \in Outcomes :
            /\ Spend(IF can THEN o ELSE "ok")
            /\ IF can /\ o = "ok"
               THEN /\ tdir' = [tdir EXCEPT ![n] = dir[n]]
                    /\ dir' = [dir EXCEPT ![n] = NoDir]
                    /\ hist' = [hist EXCEPT !.prev[n] = NoData, !.saved[n] = NoData,
                                            !.last[n] = NoData, !.fixed[n] = NoData]
                    /\ Goto(s, "da_clear", [loc[s] EXCEPT !.renamed = TRUE])
                    /\ UNCHANGED <<slots, res, locks>>
               ELSE /\ slots' = [slots EXCEPT ![i].active = FALSE]
                    /\ UNCHANGED <<disk, hist>>
                    /\ IF FailSoftly(slots[i])
                       THEN /\ Goto(s, "da_clear", loc[s])
                            /\ res' = [res EXCEPT ![s].msgs = @ \cup {"RENAME_WARNING"}]
                            /\ UNCHANGED locks
                       ELSE RaiseError(s, IF can THEN "IO" ELSE "RENAME")
    /\ UNCHANGED <<my, published, env>>

\* ReplicationSlotDropAcquired: active and in_use are cleared under the
\* control lock; the required xmin and LSN are recomputed next
DropAcquiredClear(s) ==
    /\ Running(s) /\ pc[s] = "da_clear"
    /\ slots' = [slots EXCEPT ![loc[s].slot].active = FALSE, ![loc[s].slot].in_use = FALSE]
    /\ pc' = [pc EXCEPT ![s] = "cx_scan"]
    /\ stk' = [stk EXCEPT ![s] = <<"cl_scan", "da_rmtree">> \o @]
    /\ res' = [q \in Procs |->
                 IF res[q].op = "create" /\ res[q].name = loc[s].name
                 THEN [res[q] EXCEPT !.conc = {}] ELSE res[q]]
    /\ UNCHANGED <<loc, my, locks, disk, published, env, faults, hist>>

\* ReplicationSlotDropAcquired: <name>.tmp is removed (a failure only
\* warns) and the allocation lock released
DropAcquiredRmtree(s) ==
    /\ Running(s) /\ pc[s] = "da_rmtree"
    /\ LET n == loc[s].name
       IN \E o \in Outcomes :
            /\ Spend(IF tdir[n].exists THEN o ELSE "ok")
            /\ tdir' = IF o = "ok" THEN [tdir EXCEPT ![n] = NoDir] ELSE tdir
            /\ Return(s, IF o = "ok" THEN {} ELSE {"RMTREE_WARNING"})
    /\ allocEx' = NoProc
    /\ hist' = IF res[s].op \in {"drop", "release"}
               THEN [hist EXCEPT !.gone[loc[s].name] = res[s].op] ELSE hist
    /\ UNCHANGED <<slots, my, allocSh, ioLock, dir, published, env>>

\* ------------------------------------------------------------ save, dirty
\* ReplicationSlotSave: CreateSlotOnDisk if the slot's directory is missing,
\* then SaveSlotToPath at ERROR
SaveBody(s) ==
    LET i == my[s]
        n == slots[i].data.name
        l == [loc[s] EXCEPT !.slot = i, !.name = n, !.sv_slot = i, !.sv_dir = n,
                            !.sv_tmp = FALSE, !.sv_lvl = "ERROR", !.cod_slot = i]
    IN IF ~dir[n].exists
       THEN /\ pc' = [pc EXCEPT ![s] = "cod_mkdir"]
            /\ stk' = [stk EXCEPT ![s] = <<"save_sv", "done">>]
            /\ loc' = [loc EXCEPT ![s] = l]
       ELSE /\ pc' = [pc EXCEPT ![s] = "sv_check"]
            /\ stk' = [stk EXCEPT ![s] = <<"done">>]
            /\ loc' = [loc EXCEPT ![s] = l]

ReplicationSlotSave(s) ==
    /\ Running(s) /\ s \in Sessions /\ pc[s] = "idle" /\ my[s] # 0
    /\ SaveBody(s)
    /\ res' = [res EXCEPT ![s] = Started("save", slots[my[s]].data.name)]
    /\ UNCHANGED <<slots, my, locks, disk, published, env, faults, hist>>

\* the SaveSlotToPath of a caller that ran CreateSlotOnDisk first
SaveAfterCreate(p) ==
    /\ Running(p) /\ pc[p] = "save_sv"
    /\ Goto(p, "sv_check", [loc[p] EXCEPT !.sv_slot = loc[p].slot, !.sv_dir = loc[p].name,
                                         !.sv_tmp = FALSE,
                                         !.sv_lvl = IF p = Ckpt THEN "LOG" ELSE "ERROR"])
    /\ UNCHANGED <<slots, my, res, locks, disk, published, env, faults, hist>>

\* dirty and just_dirtied set under the spinlock
Dirtied(sl) == [sl EXCEPT !.just_dirtied = TRUE, !.dirty = TRUE]

ReplicationSlotMarkDirty(s) ==
    /\ Running(s) /\ s \in Sessions /\ pc[s] = "idle" /\ my[s] # 0
    /\ ~(slots[my[s]].just_dirtied /\ slots[my[s]].dirty)
    /\ slots' = [slots EXCEPT ![my[s]] = Dirtied(@)]
    /\ hist' = MarkNoted(my[s])
    /\ UNCHANGED <<my, pc, stk, loc, res, locks, disk, published, env, faults>>


\* SetDummyStandbySlotLsnInvalid: a valid restart_lsn of the session's
\* dummy-standby slot is cleared under the spinlock
SetDummyStandbySlotLsnInvalid(s) ==
    /\ Running(s) /\ s \in Sessions /\ pc[s] = "idle" /\ my[s] # 0
    /\ slots[my[s]].data.isDummyStandby
    /\ slots[my[s]].data.restart_lsn # InvalidXLogRecPtr
    /\ slots' = [slots EXCEPT ![my[s]].data.restart_lsn = 0]
    /\ pc' = [pc EXCEPT ![s] = "dl_mark"]
    /\ stk' = [stk EXCEPT ![s] = <<>>]
    /\ loc' = [loc EXCEPT ![s] = [LocInit EXCEPT !.slot = my[s], !.op = "set_lsn"]]
    /\ res' = [res EXCEPT ![s] = Started("set_lsn", slots[my[s]].data.name)]
    /\ UNCHANGED <<my, locks, disk, published, env, faults, hist>>

\* SetDummyStandbySlotLsnInvalid: ReplicationSlotMarkDirty, then the
\* required LSN is recomputed
SetDummyStandbyMark(s) ==
    /\ Running(s) /\ pc[s] = "dl_mark"
    /\ slots' = [slots EXCEPT ![my[s]] = Dirtied(@)]
    /\ hist' = MarkNoted(my[s])
    /\ CallTo(s, "cl_scan", "done", loc[s])
    /\ UNCHANGED <<my, res, locks, disk, published, env, faults>>

\* ReplicationSlotPersist: persistency becomes RS_PERSISTENT under the
\* spinlock
ReplicationSlotPersist(s) ==
    /\ Running(s) /\ s \in Sessions /\ pc[s] = "idle" /\ my[s] # 0
    /\ slots[my[s]].data.persistency # "RS_PERSISTENT"
    /\ slots' = [slots EXCEPT ![my[s]].data.persistency = "RS_PERSISTENT"]
    /\ pc' = [pc EXCEPT ![s] = "ps_mark"]
    /\ stk' = [stk EXCEPT ![s] = <<>>]
    /\ loc' = [loc EXCEPT ![s] = [LocInit EXCEPT !.slot = my[s], !.op = "persist"]]
    /\ res' = [res EXCEPT ![s] = Started("persist", slots[my[s]].data.name)]
    /\ UNCHANGED <<my, locks, disk, published, env, faults, hist>>

\* ReplicationSlotPersist: ReplicationSlotMarkDirty
PersistMark(s) ==
    /\ Running(s) /\ pc[s] = "ps_mark"
    /\ slots' = [slots EXCEPT ![my[s]] = Dirtied(@)]
    /\ hist' = MarkNoted(my[s])
    /\ Goto(s, "ps_save", loc[s])
    /\ UNCHANGED <<my, res, locks, disk, published, env, faults>>

\* ReplicationSlotPersist: ReplicationSlotSave
PersistSave(s) ==
    /\ Running(s) /\ pc[s] = "ps_save"
    /\ SaveBody(s)
    /\ UNCHANGED <<slots, my, res, locks, disk, published, env, faults, hist>>

\* ------------------------------------------------------------ checkpoint
\* CheckPointReplicationSlots: the allocation lock is taken shared
CheckPointReplicationSlots ==
    /\ Running(Ckpt) /\ pc[Ckpt] = "idle"
    /\ allocEx = NoProc
    /\ allocSh' = allocSh \cup {Ckpt}
    /\ pc' = [pc EXCEPT ![Ckpt] = "ck_loop"]
    /\ stk' = [stk EXCEPT ![Ckpt] = <<>>]
    /\ loc' = [loc EXCEPT ![Ckpt] = [LocInit EXCEPT !.i = 1, !.op = "checkpoint"]]
    /\ res' = [res EXCEPT ![Ckpt] = Started("checkpoint", "")]
    /\ UNCHANGED <<slots, my, allocEx, ioLock, disk, published, env, faults, hist>>

\* CheckPointReplicationSlots, one entry of the loop: an entry not in use is
\* skipped; an entry in use gets CreateSlotOnDisk if its directory is
\* missing, then SaveSlotToPath at LOG.  After the last entry the lock goes.
CheckPointLoop ==
    /\ Running(Ckpt) /\ pc[Ckpt] = "ck_loop"
    /\ LET i == loc[Ckpt].i
       IN IF i > max_replication_slots
          THEN /\ allocSh' = allocSh \ {Ckpt}
               /\ Finish(Ckpt, {})
          ELSE /\ UNCHANGED <<allocSh, res>>
               /\ IF ~slots[i].in_use
                  THEN Goto(Ckpt, "ck_loop", [loc[Ckpt] EXCEPT !.i = i + 1])
                  ELSE LET n == slots[i].data.name
                           l == [loc[Ckpt] EXCEPT !.i = i + 1, !.slot = i, !.name = n,
                                                  !.cod_slot = i, !.sv_slot = i, !.sv_dir = n,
                                                  !.sv_tmp = FALSE, !.sv_lvl = "LOG"]
                       IN IF ~dir[n].exists
                          THEN /\ pc' = [pc EXCEPT ![Ckpt] = "cod_mkdir"]
                               /\ stk' = [stk EXCEPT ![Ckpt] = <<"save_sv", "ck_loop">>]
                               /\ loc' = [loc EXCEPT ![Ckpt] = l]
                          ELSE CallTo(Ckpt, "sv_check", "ck_loop", l)
    /\ UNCHANGED <<slots, my, allocEx, ioLock, disk, published, env, faults, hist>>


\* ------------------------------------------------------------ kill, startup
\* the processes inside SaveSlotToPath on pg_replslot/<n>
InSave(n) ==
    {p \in Procs : /\ pc[p] \in {"sv_open0", "sv_write0", "sv_open1", "sv_write1",
                                  "sv_rename", "sv_clear"}
                   /\ ~loc[p].sv_tmp /\ loc[p].sv_dir = n}

\* what the checked properties remember of a save into <n> that the kill
\* interrupts: whether the rename was done, the record of the last save
\* that succeeded before this one, and the record of this one
KillNote(n) ==
    IF InSave(n) = {} THEN [at |-> "none", old |-> NoData, new |-> NoData]
    ELSE IF \E p \in InSave(n) : pc[p] = "sv_clear"
    THEN [at |-> "after", old |-> hist.prev[n], new |-> hist.saved[n]]
    ELSE [at |-> "before", old |-> hist.saved[n],
          new |-> IF \E p \in InSave(n) : pc[p] = "sv_rename"
                  THEN dir[n].tmp.slotdata ELSE hist.saved[n]]

\* a write() cut short by the kill leaves a record that fails its checksum
\* where a record was, and a short file where none was
TornFile(f, d) == IF f.st = "rec" THEN [OnDiskRecord(d) EXCEPT !.checksum = 0] ELSE f

\* the directories after the kill: the file process q was writing is torn
\* if torn[q], for the processes q from p on
RECURSIVE KillDisk(_, _, _)
KillDisk(p, torn, dt) ==
    IF p > Ckpt THEN dt
    ELSE IF pc[p] \in {"sv_write0", "sv_write1"} /\ torn[p]
    THEN LET fld == IF pc[p] = "sv_write0" THEN "backup" ELSE "tmp"
             n == loc[p].sv_dir
             cp == slots[loc[p].sv_slot].data
             k == IF loc[p].sv_tmp THEN 2 ELSE 1
             d == dt[k][n]
             d2 == IF d.exists THEN [d EXCEPT ![fld] = TornFile(@, cp)] ELSE d
         IN KillDisk(p + 1, torn, [dt EXCEPT ![k] = [@ EXCEPT ![n] = d2]])
    ELSE KillDisk(p + 1, torn, dt)

\* the process is killed: shared memory and the sessions are gone, the
\* directories stay
Kill ==
    /\ phase = "run" /\ kills < cfg.kills
    /\ kills' = kills + 1
    /\ phase' = "down"
    /\ \E torn \in [Procs -> BOOLEAN] :
         /\ \A p \in Procs : torn[p] =>
                /\ pc[p] \in {"sv_write0", "sv_write1"}
                /\ SaveDir(p).exists
                /\ SaveDir(p)[IF pc[p] = "sv_write0" THEN "backup" ELSE "tmp"].st = "rec"
         /\ dir' = KillDisk(1, torn, <<dir, tdir>>)[1]
         /\ tdir' = KillDisk(1, torn, <<dir, tdir>>)[2]
    /\ hist' = [hist EXCEPT !.kill = [n \in Names |-> KillNote(n)],
                            !.cut = {CreateArgs(p) : p \in CreatingSlot},
                            !.gone = [n \in Names |->
                                        IF \E p \in Procs : loc[p].renamed /\ loc[p].name = n
                                        THEN "killdrop" ELSE ""]]
    /\ slots' = [i \in SlotIds |-> ZeroSlot]
    /\ my' = [p \in Procs |-> 0]
    /\ pc' = [p \in Procs |-> "idle"]
    /\ stk' = [p \in Procs |-> <<>>]
    /\ loc' = [p \in Procs |-> LocInit]
    /\ res' = [p \in Procs |-> ResInit]
    /\ allocEx' = NoProc
    /\ allocSh' = {}
    /\ ioLock' = [i \in SlotIds |-> NoProc]
    /\ procXmin' = InvalidTransactionId
    /\ procCatXmin' = InvalidTransactionId
    /\ xlogMin' = InvalidXLogRecPtr
    /\ xlogMax' = InvalidXLogRecPtr
    /\ UNCHANGED <<cfg, faults>>

\* while the process is down, a field of a state or backup file that
\* verified is damaged
Corrupt(n, fld, what) ==
    /\ phase = "down" /\ cfg.corrupt
    /\ dir[n].exists /\ dir[n][fld].st = "rec" /\ RecordVerifies(dir[n][fld])
    /\ dir' = [dir EXCEPT ![n][fld] = [@ EXCEPT ![what] = 0]]
    /\ hist' = [hist EXCEPT !.fixed[n] = NoData]
    /\ UNCHANGED <<slots, my, pc, stk, loc, res, locks, tdir, published, env, faults>>

\* a restored entry whose effective xmin values are left as they were
RestoredSlotData(cp) ==
    [ZeroSlot EXCEPT !.data = cp.slotdata, !.in_use = TRUE, !.active = FALSE]

\* the restored table entry for the record cp (RestoreSlotFromDisk)
RestoredSlot(cp) ==
    [ZeroSlot EXCEPT !.data = cp.slotdata,
                     !.effective_xmin = cp.slotdata.xmin,
                     !.effective_catalog_xmin = cp.slotdata.catalog_xmin,
                     !.in_use = TRUE, !.active = FALSE]

\* the first entry of table tab that is not in use, 0 if there is none
FirstFreeIn(tab) ==
    IF \A i \in SlotIds : tab[i].in_use THEN 0
    ELSE CHOOSE i \in SlotIds :
            /\ ~tab[i].in_use
            /\ \A j \in SlotIds : ~tab[j].in_use => i <= j

\* the loop of RestoreSlotFromDisk over the table that runs on to the end:
\* every entry not in use takes the record
RestoreIntoAll(tab, cp) ==
    [i \in SlotIds |-> IF tab[i].in_use THEN tab[i] ELSE RestoredSlot(cp)]

\* the loop of RestoreSlotFromDisk over the table: the first entry not in
\* use takes the record, and the loop ends there
RestoreInto(tab, cp) == [tab EXCEPT ![FirstFreeIn(tab)] = RestoredSlot(cp)]

\* a restore from the backup that leaves <name>/state as it was
StateNotRewritten(d, cp) == d

\* RecoverReplSlotFile: the state file is truncated and rewritten from cp
RecoverReplSlotFile(d, cp) == [d EXCEPT !.state = cp]

\* a restore that opens <name>/state.backup first
BackupFirst(d) == d.backup

\* the file RestoreSlotFromDisk opens first: <name>/state
StateFileOf(d) == d.state

\* RestoreSlotFromDisk on directory d with table tab: the directory and the
\* table it leaves, and whether it ended in a PANIC.  state.tmp is unlinked,
\* and state.backup with it if state.tmp was there; the state file is read
\* and verified, with one retry on the backup when that is not ruled out.
RestoreSlotFromDisk(d, tab) ==
    LET had_tmp == d.tmp.st # "none"
        d1 == [d EXCEPT !.tmp = NoFile, !.backup = IF had_tmp THEN NoFile ELSE @]
        f0 == StateFileOf(d1)
        f1 == d1.backup
        good0 == f0.st = "rec" /\ RecordVerifies(f0)
        retry == f0.st = "rec" /\ ~RecordVerifies(f0) /\ ~had_tmp
        good1 == retry /\ f1.st = "rec" /\ RecordVerifies(f1)
        cp == IF good0 THEN f0 ELSE f1
        free == FirstFreeIn(tab)
    IN IF ~good0 /\ ~good1
       THEN [d |-> d1, tab |-> tab, panic |-> TRUE, from |-> "none", retry |-> retry]
       ELSE IF cp.slotdata.persistency # "RS_PERSISTENT"
       THEN [d |-> NoDir, tab |-> tab, panic |-> FALSE, from |-> "none", retry |-> retry]
       ELSE LET d2 == IF retry THEN RecoverReplSlotFile(d1, cp) ELSE d1
            IN IF free = 0
               THEN [d |-> d2, tab |-> tab, panic |-> TRUE, from |-> "none", retry |-> retry]
               ELSE [d |-> d2, tab |-> RestoreInto(tab, cp),
                     panic |-> FALSE, from |-> IF retry THEN "backup" ELSE "state",
                     retry |-> retry]

\* the loop of StartupReplicationSlots over the directory entries in the
\* order ord, from position k on, with the state st reached so far
RECURSIVE StartupLoop(_, _, _)
StartupLoop(ord, k, st) ==
    IF k > Len(ord) \/ st.panic THEN st
    ELSE LET n == ord[k]
             r == RestoreSlotFromDisk(st.dir[n], st.tab)
         IN IF ~st.dir[n].exists THEN StartupLoop(ord, k + 1, st)
            ELSE StartupLoop(ord, k + 1,
                             [dir |-> [st.dir EXCEPT ![n] = r.d], tab |-> r.tab,
                              panic |-> r.panic,
                              from |-> [st.from EXCEPT ![n] = r.from],
                              tried |-> IF r.retry THEN st.tried \cup {n} ELSE st.tried])

\* the orders in which ReadDir may return the slot directories
DirOrders == {o \in [1..Cardinality(Names) -> Names] : \A n \in Names : \E k \in DOMAIN o : o[k] = n}


\* a startup that leaves every <name>.tmp where it is
TmpKept(t, keep) == t

\* the <name>.tmp directories after startup: rmtree removed each one
\* outside keep, and failed on those in keep
TmpLeft(t, keep) == [n \in Names |-> IF n \in keep THEN t[n] ELSE NoDir]

\* StartupReplicationSlots: every <name>.tmp is removed (a failure only
\* warns), every other directory goes through RestoreSlotFromDisk, then the
\* required xmin and LSN are computed
StartupReplicationSlots ==
    /\ phase = "down"
    /\ UNCHANGED <<my, pc, stk, loc, res, locks, kills, cfg>>
    /\ \E ord \in DirOrders, keep \in SUBSET {n \in Names : tdir[n].exists} :
         LET r == StartupLoop(ord, 1, [dir |-> dir, tab |-> [i \in SlotIds |-> ZeroSlot],
                                       panic |-> FALSE,
                                       from |-> [n \in Names |-> "none"],
                                       tried |-> {}])
         IN /\ faults + Cardinality(keep) <= cfg.faults
            /\ faults' = faults + Cardinality(keep)
            /\ tdir' = TmpLeft(tdir, keep)
            /\ dir' = r.dir
            /\ slots' = r.tab
            /\ phase' = IF r.panic THEN "panic" ELSE "up"
            /\ hist' = [hist EXCEPT !.found = dir, !.from = r.from, !.tried = r.tried,
                                    !.was = hist.fixed,
                                    !.fixed = [n \in Names |->
                                                 IF r.from[n] = "backup" THEN r.dir[n].state.slotdata
                                                 ELSE IF r.from[n] = "state" THEN hist.fixed[n]
                                                 ELSE NoData]]
    /\ IF max_replication_slots > 0 /\ phase' = "up"
       THEN /\ procXmin' = XminScan(1, InvalidTransactionId, "xmin")'
            /\ procCatXmin' = XminScan(1, InvalidTransactionId, "catalog")'
            /\ xlogMin' = LsnScan(1, <<InvalidXLogRecPtr, InvalidXLogRecPtr, FALSE>>)[1]'
            /\ xlogMax' = LsnScan(1, <<InvalidXLogRecPtr, InvalidXLogRecPtr, FALSE>>)[2]'
       ELSE UNCHANGED published

\* the record an in_use entry named n holds, NoData if there is none
TableData(n) == IF FindSlot(n) = 0 THEN NoData ELSE slots[FindSlot(n)].data

\* after startup the sessions are admitted
Serve ==
    /\ phase = "up"
    /\ phase' = "run"
    /\ hist' = [HistInit EXCEPT !.saved = [n \in Names |-> IF dir[n].exists THEN TableData(n)
                                                          ELSE NoData],
                                !.gone = hist.gone, !.fixed = hist.fixed, !.by = hist.by]
    /\ UNCHANGED <<slots, my, pc, stk, loc, res, locks, disk, published, kills, cfg, faults>>


\* ------------------------------------------------------------ specifications
\* the steps inside the operations, for any process
Step ==
    \E p \in Procs :
        \/ ReplicationSlotCreate(p) \/ CreateFlip(p)
        \/ CreateSlotOnDisk(p) \/ CreateSlotRename(p)
        \/ SaveCheck(p) \/ SaveOpenBackup(p) \/ SaveWriteBackup(p) \/ SaveOpenTmp(p)
        \/ SaveWriteTmp(p) \/ SaveRename(p) \/ SaveClear(p)
        \/ ComputeXminScan(p) \/ ComputeXminPublish(p)
        \/ ComputeLsnScan(p) \/ ComputeLsnPublish(p)
        \/ AcquireCheck(p)
        \/ DropAcquiredLock(p) \/ DropAcquiredRename(p) \/ DropAcquiredClear(p)
        \/ DropAcquiredRmtree(p)
        \/ ReleaseXmin(p) \/ ReleaseFinish(p)

\* the operations a session may call, with the arguments of the run
Create ==
    \E s \in cfg.sessions, n \in cfg.names, pers \in cfg.pers, db \in cfg.dbs :
        \E dummy \in cfg.dummies : CreateCall(s, n, pers, dummy, db, 1)

Acquire ==
    \E s \in cfg.sessions, n \in cfg.names, dummy \in cfg.dummies :
        ReplicationSlotAcquire(s, n, dummy)

Release == \E s \in cfg.sessions : ReplicationSlotRelease(s)

Drop == \E s \in cfg.sessions, n \in cfg.names : ReplicationSlotDrop(s, n)

CheckPoint == CheckPointReplicationSlots \/ CheckPointLoop

Restart == Kill \/ StartupReplicationSlots \/ Serve

\* Spec: sessions create, acquire, release and drop persistent slots,
\* physical and logical, of one name; the checkpointer runs; the process
\* may be killed and started again; no system call fails
LifeCfg ==
    [sessions |-> Sessions, names |-> {"a"}, pers |-> {"RS_PERSISTENT"}, dbs |-> {0, 1},
     dummies |-> {FALSE},
     faults |-> 0, kills |-> MaxKills, corrupt |-> FALSE, server_mode |-> "PRIMARY_MODE",
     max_slots |-> MaxSlots]

Init == InitWith(LifeCfg)

Next ==
    \/ Step \/ Create \/ Acquire \/ Release \/ Drop \/ CheckPoint \/ Restart
    \/ \E s \in Sessions : AcquireAfterDuplicate(s)

Spec == Init /\ [][Next]_vars

\* ------------------------------------------------------------ properties
\* C1: at most one session has any given slot entry as its current slot
OwnershipExclusive ==
    \A s1, s2 \in Sessions : (s1 # s2 /\ my[s1] # 0) => my[s1] # my[s2]

\* the entries in use that bear name n
InUseNamed(n) == {i \in SlotIds : slots[i].in_use /\ slots[i].data.name = n}

\* C2: no two entries in use bear the same name
NamesUnique ==
    \A i, j \in SlotIds :
        (i # j /\ slots[i].in_use /\ slots[j].in_use) => slots[i].data.name # slots[j].data.name

\* after a restart an entry is in use and a create of its name was refused
NamesUniqueSeen ==
    /\ phase = "run" /\ kills > 0
    /\ \E s \in Sessions : /\ res[s].op = "create" /\ "DUPLICATE" \in res[s].msgs
                           /\ res[s].status # "none"
                           /\ InUseNamed(res[s].name) # {}
                           /\ \E i \in SlotIds : ~slots[i].in_use

\* the creates of sessions s1 and s2 ran together, with no other, and both
\* have returned; the name was not in use when the second was called
RacedCreates(s1, s2) ==
    /\ s1 # s2
    /\ \A s \in {s1, s2} : res[s].op = "create" /\ res[s].status # "none" /\ pc[s] = "idle"
    /\ res[s1].name = res[s2].name
    /\ res[s1].conc = {s2} /\ res[s2].conc = {s1}

CreateWon(s) == res[s].status = "ok" /\ "DUPLICATE" \notin res[s].msgs

CreateLost(s) == "DUPLICATE" \in res[s].msgs

\* C4: of two concurrent creates of one name exactly one allocates the slot
\* and succeeds, the other reports DUPLICATE, and exactly one entry in use
\* bears the name afterwards
CreateRaceDecided ==
    \A s1, s2 \in Sessions :
        RacedCreates(s1, s2)
        => /\ (CreateWon(s1) /\ CreateLost(s2)) \/ (CreateWon(s2) /\ CreateLost(s1))
           /\ ~(CreateWon(s1) /\ CreateWon(s2))
           /\ Cardinality(InUseNamed(res[s1].name)) = 1

\* two creates of one name ran together; one succeeded, the other was
\* refused with an ERROR
CreateRaceSeen ==
    \E s1, s2 \in Sessions :
        /\ RacedCreates(s1, s2)
        /\ CreateWon(s1) /\ CreateLost(s2) /\ res[s2].status = "error"

\* C8: after a kill that came between the rename of <name> to <name>.tmp in
\* ReplicationSlotDropAcquired and the end of its cleanup, startup does not
\* panic, <name>.tmp is gone, no entry in use bears the name, and the next
\* create of the name succeeds
DropCrashCleaned ==
    /\ \A n \in Names :
          hist.gone[n] = "killdrop" =>
             /\ phase # "panic"
             /\ phase \in {"up", "run"} =>
                   (~tdir[n].exists /\ ~dir[n].exists /\ InUseNamed(n) = {})
    /\ \A s \in Sessions :
          (res[s].op = "create" /\ res[s].note = "killdrop" /\ pc[s] = "idle")
          => (res[s].status = "ok" /\ "DUPLICATE" \notin res[s].msgs)

\* a drop was killed after its rename, and the create called after the
\* restart has succeeded
DropCrashSeen ==
    /\ phase = "run" /\ kills > 0
    /\ \E s \in Sessions : /\ res[s].op = "create" /\ res[s].note = "killdrop"
                           /\ res[s].status = "ok" /\ my[s] # 0


\* ----------------------------------------------------- saves and crashes
\* One session owns a persistent dummy-standby slot, changes it, marks it
\* dirty and saves it while the checkpointer saves it too; the server is
\* killed at any step and started again.  No I/O call fails.
Save == \E s \in cfg.sessions : ReplicationSlotSave(s)

MarkDirty == \E s \in cfg.sessions : ReplicationSlotMarkDirty(s)

SetLsn == \E s \in cfg.sessions : SetDummyStandbySlotLsnInvalid(s) \/ SetDummyStandbyMark(s)

CrashCfg ==
    [sessions |-> {1}, names |-> {"a"}, pers |-> {"RS_PERSISTENT"}, dbs |-> {0},
     dummies |-> {TRUE}, faults |-> 0, kills |-> MaxKills, corrupt |-> FALSE,
     server_mode |-> "PRIMARY_MODE",
     max_slots |-> MaxSlots]

CrashInit == InitWith(CrashCfg)

CrashNext ==
    \/ Step \/ Create \/ Acquire \/ Release \/ Drop \/ CheckPoint \/ Restart
    \/ Save \/ MarkDirty \/ SetLsn

CrashSpec == CrashInit /\ [][CrashNext]_vars

\* what startup makes of a directory whose state file holds record r: a
\* slot with r's data if r is persistent, no slot otherwise
Expected(r) == IF r = NoData \/ r.persistency # "RS_PERSISTENT" THEN NoData ELSE r

\* C3: when the server is killed while a save of <name> is in progress, the
\* next startup does not panic and restores the slot from the record that
\* was in <name>/state before that save or from the record the save was
\* writing, whole
KillDuringSaveAtomic ==
    \A n \in Names :
        hist.kill[n].at # "none" /\ phase \in {"up", "panic"} =>
            /\ phase = "up"
            /\ TableData(n) \in {Expected(hist.kill[n].old), Expected(hist.kill[n].new)}

\* a save that was killed before its rename, with a changed record in
\* state.tmp, and startup restored the previous record
KillDuringSaveSeen ==
    \E n \in Names :
        /\ phase = "up" /\ hist.kill[n].at = "before"
        /\ hist.kill[n].old # hist.kill[n].new
        /\ hist.kill[n].new # NoData
        /\ TableData(n) = hist.kill[n].old

\* C6: when ReplicationSlotSave returned without an error for a persistent
\* slot and the server is killed before <name>/state is replaced again,
\* startup restores an entry that is in use, not active, and whose
\* persistent fields are those the slot had in memory when the save returned
SavedSlotRestored ==
    \A n \in Names :
        /\ phase \in {"up", "panic"}
        /\ hist.last[n] # NoData /\ hist.last[n].persistency = "RS_PERSISTENT"
        => /\ phase = "up"
           /\ Cardinality(InUseNamed(n)) = 1
           /\ \A i \in InUseNamed(n) :
                  /\ slots[i].in_use /\ ~slots[i].active
                  /\ slots[i].data = hist.last[n]

\* a saved slot whose restart_lsn had been cleared came back after a kill
SavedSlotRestoredSeen ==
    \E n \in Names :
        /\ phase = "up" /\ hist.last[n] # NoData
        /\ hist.last[n].restart_lsn = InvalidXLogRecPtr
        /\ \E i \in InUseNamed(n) : slots[i].data = hist.last[n]


\* ------------------------------------------------------- damaged files
\* One session creates and saves a persistent slot; the server is killed,
\* while it is down a field of the header of state or state.backup may be
\* damaged, and it is started again, twice.
Damage ==
    \E n \in cfg.names, fld \in {"state", "backup"}, what \in {"magic", "checksum", "length"} :
        Corrupt(n, fld, what)

DamageCfg ==
    [sessions |-> {1}, names |-> {"a"}, pers |-> {"RS_PERSISTENT"}, dbs |-> {0},
     dummies |-> {TRUE}, faults |-> 0, kills |-> MaxKills + 1, corrupt |-> TRUE,
     server_mode |-> "PRIMARY_MODE",
     max_slots |-> MaxSlots]

DamageInit == InitWith(DamageCfg)

DamageNext ==
    \/ Step \/ Create \/ Acquire \/ Release \/ Drop \/ Save \/ MarkDirty \/ SetLsn
    \/ Restart \/ Damage

DamageSpec == DamageInit /\ [][DamageNext]_vars

\* startup found <n>/state whole but failing verification and
\* <n>/state.backup holding a verifying record of a persistent slot
StateBadBackupGood(n) ==
    LET f == hist.found[n]
    IN /\ phase \in {"up", "panic"}
       /\ f.exists
       /\ f.state.st = "rec" /\ ~RecordVerifies(f.state)
       /\ f.backup.st = "rec" /\ RecordVerifies(f.backup)
       /\ f.backup.slotdata.persistency = "RS_PERSISTENT"

\* startup did not fail, restored <n> from the backup record and rewrote
\* <n>/state with it
RestoredFromBackup(n) ==
    /\ phase = "up"
    /\ hist.from[n] = "backup"
    /\ TableData(n) = hist.found[n].backup.slotdata
    /\ dir[n].state = hist.found[n].backup

\* a startup that finds the state file an earlier startup rewrote restores
\* the slot from state
RestoredFromRewritten(n) ==
    hist.was[n] # NoData /\ phase \in {"up", "panic"} =>
        /\ phase = "up"
        /\ hist.from[n] = "state"
        /\ TableData(n) = hist.was[n]

Abort == \E s \in cfg.sessions : AbortRelease(s)

DirtyCfg ==
    [sessions |-> {1}, names |-> {"a"}, pers |-> {"RS_PERSISTENT"}, dbs |-> {0},
     dummies |-> {TRUE}, faults |-> MaxFaults, kills |-> 0, corrupt |-> FALSE,
     server_mode |-> "PRIMARY_MODE",
     max_slots |-> MaxSlots]

DirtyInit == InitWith(DirtyCfg)

DirtyNext ==
    \/ Step \/ Create \/ Acquire \/ Release \/ Drop \/ CheckPoint
    \/ Save \/ MarkDirty \/ SetLsn \/ Abort

DirtySpec == DirtyInit /\ [][DirtyNext]_vars

\* a process is inside a save of entry i (from the read of dirty to the
\* return of SaveSlotToPath)
SaveInProgress(i) ==
    \E p \in Procs :
        /\ pc[p] \in {"sv_check", "sv_open0", "sv_write0", "sv_open1", "sv_write1",
                      "sv_rename", "sv_clear"}
        /\ ~loc[p].sv_tmp /\ loc[p].sv_slot = i

\* the owner of entry i changed a field and has not yet called
\* ReplicationSlotMarkDirty, or is creating or dropping the slot
ChangeInProgress(i) ==
    \E s \in Sessions :
        \/ pc[s] \in {"dl_mark", "ps_mark"} /\ my[s] = i
        \/ pc[s] \in {"da_lock", "da_rename", "da_clear", "da_rmtree"} /\ loc[s].slot = i
        \/ pc[s] \in {"cr_flip", "cod_mkdir", "cod_rename"} /\ loc[s].slot = i

\* C5: an in_use entry whose dirty flag is false, with no save of it in
\* progress and no change of it under way, has a state file that holds the
\* entry's persistent data
CleanMeansSaved ==
    \A i \in SlotIds :
        /\ phase = "run" /\ slots[i].in_use /\ ~slots[i].dirty
        /\ ~SaveInProgress(i) /\ ~ChangeInProgress(i)
        => LET d == dir[slots[i].data.name]
           IN /\ d.exists /\ d.state.st = "rec" /\ RecordVerifies(d.state)
              /\ d.state.slotdata = slots[i].data


\* ------------------------------------------------------ drop, then create
\* Every session creates, marks dirty, saves, releases and drops a
\* persistent physical slot of one name; no I/O call fails and the server is
\* not killed.
SaveOrCreate == \E s \in cfg.sessions : ReplicationSlotSave(s) \/ SaveAfterCreate(s)

DropCfg ==
    [sessions |-> Sessions, names |-> {"a"}, pers |-> {"RS_PERSISTENT"},
     dbs |-> {0}, dummies |-> {FALSE}, faults |-> 0, kills |-> 0, corrupt |-> FALSE,
     server_mode |-> "PRIMARY_MODE",
     max_slots |-> MaxSlots]

DropInit == InitWith(DropCfg)

DropNext ==
    \/ Step \/ Create \/ Release \/ Drop \/ SaveOrCreate \/ MarkDirty \/ Abort
    \/ \E s \in Sessions : AcquireAfterDuplicate(s)

DropSpec == DropInit /\ [][DropNext]_vars

\* the drop of session s returns without an error in this step
DropReturns(s) ==
    /\ pc[s] = "da_rmtree" /\ res[s].op = "drop"
    /\ pc'[s] = "idle" /\ res'[s].status = "ok"

\* C9: when drop(name) returns without an error, no in_use entry has the
\* name and no scan of an aggregate counts an entry of the name; and the
\* first create of the name that scans the table after the drop succeeds
DropThenCreate ==
    /\ \A s \in Sessions :
           DropReturns(s) =>
               \A i \in SlotIds :
                   slots'[i].data.name = res[s].name => ~slots'[i].in_use /\ ~LsnCounted(i)'
    /\ \A s \in Sessions :
           /\ res'[s].op = "create" /\ res'[s].note = "drop"
           /\ res'[s].status # "none"
           => res'[s].status = "ok"

DropContract == [][DropThenCreate]_vars


\* ------------------------------------------------------ ephemeral slots
\* Every session creates, acquires, persists and releases an ephemeral
\* physical slot of one name; no I/O call fails and the server is
\* not killed.
Persist ==
    \E s \in cfg.sessions : ReplicationSlotPersist(s) \/ PersistMark(s) \/ PersistSave(s)

EphemeralCfg ==
    [sessions |-> Sessions, names |-> {"a"}, pers |-> {"RS_EPHEMERAL"},
     dbs |-> {0}, dummies |-> {FALSE}, faults |-> 0, kills |-> 0, corrupt |-> FALSE,
     server_mode |-> "PRIMARY_MODE",
     max_slots |-> MaxSlots]

EphemeralInit == InitWith(EphemeralCfg)

EphemeralNext ==
    \/ Step \/ Create \/ Acquire \/ Release \/ Persist \/ Abort
    \/ \E s \in Sessions : AcquireAfterDuplicate(s)

EphemeralSpec == EphemeralInit /\ [][EphemeralNext]_vars

\* the release by session s of a slot it created, ephemeral when the
\* release began, returns in this step, and no create of the name has
\* scanned the table since the release dropped the slot
OwnEphemeralReleased(s) ==
    /\ pc[s] # "idle" /\ res[s].op = "release" /\ res[s].note = "ephemeral"
    /\ pc'[s] = "idle"
    /\ hist'.gone[res[s].name] = "release"

\* C10: when the release of an ephemeral slot by the session that created
\* it returns, no in_use entry has the name, pg_replslot/<name> does not
\* exist, the session has no current slot and ReplicationSlotFind is false
ReleaseDropsOwnEphemeral ==
    \A s \in Sessions :
        OwnEphemeralReleased(s) =>
            /\ InUseNamed(res[s].name)' = {}
            /\ ~dir'[res[s].name].exists
            /\ my'[s] = 0
            /\ ~ReplicationSlotFind(res[s].name)'

EphemeralReleaseDrops == [][ReleaseDropsOwnEphemeral]_vars


\* ------------------------------------------------------------ a full table
\* The sessions create, release and drop persistent physical slots of three
\* names in a table of MaxSlots entries; no I/O call fails and the server
\* is not killed.
Full == \E s \in cfg.sessions : CreateFull(s)

FullCfg ==
    [sessions |-> Sessions, names |-> {"a", "b", "c"}, pers |-> {"RS_PERSISTENT"},
     dbs |-> {0}, dummies |-> {FALSE}, faults |-> 0, kills |-> 0, corrupt |-> FALSE,
     server_mode |-> "PRIMARY_MODE",
     max_slots |-> MaxSlots]

FullInit == InitWith(FullCfg)

\* the steps inside create, save, acquire and release
FullStep ==
    \E p \in Procs :
        \/ ReplicationSlotCreate(p) \/ CreateFlip(p) \/ CreateSlotOnDisk(p) \/ CreateSlotRename(p)
        \/ SaveCheck(p) \/ SaveOpenBackup(p) \/ SaveWriteBackup(p) \/ SaveOpenTmp(p)
        \/ SaveWriteTmp(p) \/ SaveRename(p) \/ SaveClear(p)
        \/ AcquireCheck(p) \/ ReleaseXmin(p) \/ ReleaseFinish(p)

FullNext ==
    \/ FullStep \/ Create \/ Full \/ Release
    \/ \E s \in Sessions : AcquireAfterDuplicate(s)

FullSpec == FullInit /\ [][FullNext]_vars

\* the scan of the create of session s ends in this step, with every entry
\* in use and none bearing the name
ScansFullTable(s) ==
    /\ pc[s] = "cr_lock" /\ pc'[s] # "cr_lock"
    /\ \A i \in SlotIds : slots[i].in_use
    /\ ~NameCollision(loc[s].name)

\* C11: a create of a new name that scans a table whose entries are all in
\* use goes on to fail with CAPACITY; neither its scan nor its failure
\* changes an entry or a directory, and the caller has no current slot
CapacityStep ==
    \A s \in Sessions :
        /\ ScansFullTable(s) =>
              /\ pc'[s] = "cr_full"
              /\ slots' = slots /\ dir' = dir /\ tdir' = tdir /\ my'[s] = 0
        /\ pc[s] = "cr_full" /\ pc'[s] # "cr_full" =>
              /\ pc'[s] = "idle"
              /\ res'[s].status = "error" /\ res'[s].msgs = {"CAPACITY"}
              /\ slots' = slots /\ dir' = dir /\ tdir' = tdir /\ my'[s] = 0
              /\ allocEx' # s

CapacityRefused == [][CapacityStep]_vars

\* a create has failed with CAPACITY and every entry is still in use
CapacityRefusedSeen ==
    \E s \in Sessions :
        /\ pc[s] = "idle" /\ res[s].op = "create" /\ res[s].status = "error"
        /\ "CAPACITY" \in res[s].msgs
        /\ \A i \in SlotIds : slots[i].in_use
        /\ ~dir[res[s].name].exists /\ ~tdir[res[s].name].exists


\* ------------------------------------------------------ acquire, refused
\* The sessions create, acquire, release and drop persistent slots of one
\* name, physical or logical, as dummy standby or not; no I/O call fails and the
\* server is not killed.
AcquireCfg ==
    [sessions |-> Sessions, names |-> {"a"}, pers |-> {"RS_PERSISTENT"},
     dbs |-> {0, 1}, dummies |-> {FALSE, TRUE}, faults |-> 0, kills |-> 0, corrupt |-> FALSE,
     server_mode |-> "PRIMARY_MODE",
     max_slots |-> MaxSlots]

AcquireInit == InitWith(AcquireCfg)

AcquireNext ==
    \/ Step \/ Create \/ Acquire \/ Release \/ Drop
    \/ \E s \in Sessions : AcquireAfterDuplicate(s)

AcquireSpec == AcquireInit /\ [][AcquireNext]_vars

\* the ReplicationSlotAcquire of session s goes from its scan to its end in
\* this step
AcquireEnds(s) == pc[s] = "acq_check" /\ pc'[s] # "acq_check"

\* the scan of session s found the slot active, and the slot is logical or
\* its dummy-standby flag differs from the argument
FoundActiveOther(s) ==
    /\ loc[s].slot # 0 /\ loc[s].active
    /\ \/ slots[loc[s].slot].data.database # InvalidOid
       \/ slots[loc[s].slot].data.isDummyStandby # loc[s].dummy

\* C12: an acquire that found the slot active and logical, or with another
\* dummy-standby flag, raises IN_USE, leaves the caller without a current
\* slot and changes neither the slot nor its owner's reference; an acquire
\* that found no in_use entry of the name raises NOT_FOUND and changes no
\* slot
AcquireStep ==
    \A s \in Sessions :
        /\ AcquireEnds(s) /\ FoundActiveOther(s) =>
              /\ res'[s].status = "error" /\ "IN_USE" \in res'[s].msgs
              /\ my' = my /\ my[s] = 0
              /\ slots' = slots
        /\ AcquireEnds(s) /\ loc[s].slot = 0 =>
              /\ res'[s].status = "error" /\ "NOT_FOUND" \in res'[s].msgs
              /\ my' = my /\ my[s] = 0
              /\ slots' = slots
        /\ pc'[s] = "acq_check" /\ pc[s] # "acq_check" =>
              /\ loc'[s].slot = 0 <=> ~ReplicationSlotFind(loc'[s].name)
              /\ loc'[s].slot = 0 \/ loc'[s].active => slots' = slots

AcquireRefusal == [][AcquireStep]_vars

\* an acquire of a logical slot that another session holds has raised
\* IN_USE, and the slot is still active and that session's
AcquireRefusalSeen ==
    \E s, t \in Sessions :
        /\ s # t /\ pc[s] = "idle" /\ my[s] = 0
        /\ res[s].op = "acquire" /\ res[s].status = "error" /\ res[s].msgs = {"IN_USE"}
        /\ my[t] # 0 /\ slots[my[t]].active /\ slots[my[t]].in_use
        /\ slots[my[t]].data.name = res[s].name
        /\ slots[my[t]].data.database # InvalidOid


\* C13: when a save whose slot was marked dirty after the save read the
\* dirty flag completes, the slot's dirty flag is true
MarkedStaysDirtyStep ==
    \A p \in Procs :
        /\ pc[p] = "sv_clear" /\ pc'[p] # "sv_clear"
        /\ p \in hist.marked
        => slots'[loc[p].sv_slot].dirty

MarkedStaysDirty == [][MarkedStaysDirtyStep]_vars


\* ------------------------------------------------- the aggregate functions
\* The aggregate functions are run on every table of a bounded set: the
\* server starts with the table in shared memory and each in_use slot's
\* directory on disk.
NameOf(i) == IF i = 1 THEN "a" ELSE IF i = 2 THEN "b" ELSE "c"

\* the directory of a slot that was saved and not changed since
SavedDir(d) == [EmptyDir EXCEPT !.state = OnDiskRecord(d), !.backup = OnDiskRecord(d)]

\* the state of a running server whose table is tab, under configuration c
InitFrom(c, tab) ==
    /\ slots = tab
    /\ my = [p \in Procs |-> 0]
    /\ pc = [p \in Procs |-> "idle"]
    /\ stk = [p \in Procs |-> <<>>]
    /\ loc = [p \in Procs |-> LocInit]
    /\ res = [p \in Procs |-> ResInit]
    /\ allocEx = NoProc
    /\ allocSh = {}
    /\ ioLock = [i \in DOMAIN tab |-> NoProc]
    /\ dir = [n \in Names |->
                IF \E i \in DOMAIN tab : tab[i].in_use /\ tab[i].data.name = n
                THEN SavedDir(tab[CHOOSE i \in DOMAIN tab :
                                      tab[i].in_use /\ tab[i].data.name = n].data)
                ELSE NoDir]
    /\ tdir = [n \in Names |-> NoDir]
    /\ procXmin = InvalidTransactionId
    /\ procCatXmin = InvalidTransactionId
    /\ xlogMin = InvalidXLogRecPtr
    /\ xlogMax = InvalidXLogRecPtr
    /\ phase = "run"
    /\ faults = 0
    /\ kills = 0
    /\ cfg = c
    /\ hist = HistInit

Xids == 0..(XidModulus - 1)

\* entry i of a table, in use or left by a dropped slot, with xmin x and
\* catalog_xmin c, effective and persistent
XminEntry(i, u, x, c) ==
    [ZeroSlot EXCEPT !.in_use = u, !.data.name = NameOf(i),
                     !.data.database = IF c = InvalidTransactionId THEN 0 ELSE 1,
                     !.data.xmin = x, !.data.catalog_xmin = c,
                     !.effective_xmin = x, !.effective_catalog_xmin = c]

XminTables ==
    [1..MaxSlots -> [in_use : BOOLEAN, x : Xids, c : Xids]]

XminCfg ==
    [sessions |-> {1}, names |-> {}, pers |-> {}, dbs |-> {}, dummies |-> {},
     faults |-> 0, kills |-> 0, corrupt |-> FALSE, server_mode |-> "PRIMARY_MODE",
     max_slots |-> MaxSlots]

XminInit ==
    \E t \in XminTables :
        InitFrom(XminCfg, [i \in DOMAIN t |-> XminEntry(i, t[i].in_use, t[i].x, t[i].c)])

\* ReplicationSlotsComputeRequiredXmin is called
ComputeRequiredXmin(s) ==
    /\ Running(s) /\ s \in cfg.sessions /\ pc[s] = "idle"
    /\ res[s].op # "xmin"
    /\ pc' = [pc EXCEPT ![s] = "cx_scan"]
    /\ stk' = [stk EXCEPT ![s] = <<"done">>]
    /\ loc' = [loc EXCEPT ![s] = [LocInit EXCEPT !.op = "xmin"]]
    /\ res' = [res EXCEPT ![s] = Started("xmin", "")]
    /\ UNCHANGED <<slots, my, locks, disk, published, env, faults, hist>>

XminNext ==
    \E s \in Sessions :
        ComputeRequiredXmin(s) \/ ComputeXminScan(s) \/ ComputeXminPublish(s)

XminSpec == XminInit /\ [][XminNext]_vars


\* the valid effective values of the in_use slots, for xmin or catalog_xmin
ValidXmins(which) ==
    {x \in Xids :
        /\ TransactionIdIsValid(x)
        /\ \E i \in SlotIds :
              /\ slots[i].in_use
              /\ x = (IF which = "xmin" THEN slots[i].effective_xmin
                      ELSE slots[i].effective_catalog_xmin)}

\* r is the minimum of S under the precedes order: it precedes every other
\* value of S and none precedes it; INVALID for an empty S
IsMinimum(r, S) ==
    IF S = {} THEN r = InvalidTransactionId
    ELSE /\ r \in S
         /\ \A v \in S \ {r} : TransactionIdPrecedes(r, v) /\ ~TransactionIdPrecedes(v, r)

\* the values of S lie within less than half of the transaction-id space
\* after one of them
Comparable(S) ==
    \E b \in S : \A v \in S : (v - b) % XidModulus < XidModulus \div 2

\* the value of S all others come after, within half of the space
Oldest(S) ==
    CHOOSE b \in S : \A v \in S : (v - b) % XidModulus < XidModulus \div 2

XminPublished(s) == res[s].op = "xmin" /\ res[s].status = "ok"

\* C14, as stated: what recompute_required_xmin published is, for xmin and
\* for catalog_xmin, the minimum under the precedes order of the valid
\* effective values of the in_use slots, and INVALID when there is none
XminIsMinimum ==
    \A s \in Sessions :
        XminPublished(s) =>
            /\ IsMinimum(procXmin, ValidXmins("xmin"))
            /\ IsMinimum(procCatXmin, ValidXmins("catalog"))

\* C14, amended: when the valid effective values of the in_use slots lie
\* within half of the transaction-id space of each other, the published value
\* is the oldest of them, for xmin and for catalog_xmin separately; it is
\* INVALID when no in_use slot has a valid value; the entries that are not
\* in_use do not contribute
XminIsOldest ==
    \A s \in Sessions :
        XminPublished(s) =>
            /\ ValidXmins("xmin") = {} => procXmin = InvalidTransactionId
            /\ ValidXmins("catalog") = {} => procCatXmin = InvalidTransactionId
            /\ (ValidXmins("xmin") # {} /\ Comparable(ValidXmins("xmin")))
                  => /\ procXmin = Oldest(ValidXmins("xmin"))
                     /\ IsMinimum(procXmin, ValidXmins("xmin"))
            /\ (ValidXmins("catalog") # {} /\ Comparable(ValidXmins("catalog")))
                  => /\ procCatXmin = Oldest(ValidXmins("catalog"))
                     /\ IsMinimum(procCatXmin, ValidXmins("catalog"))

\* published from two in_use slots whose values wrap around the end of the
\* space, next to a valid value in an entry that is not in use
XminIsOldestSeen ==
    \E s \in Sessions :
        /\ XminPublished(s)
        /\ slots[1].in_use /\ slots[2].in_use
        /\ slots[1].effective_xmin = 1 /\ slots[2].effective_xmin = XidModulus - 1
        /\ procXmin = XidModulus - 1
        /\ ValidXmins("catalog") = {} /\ procCatXmin = InvalidTransactionId


\* ---------------------------------------------- the aggregates of restart_lsn
MaxLsn == 3
Lsns == 0..MaxLsn

\* the scan loop of ReplicationSlotsComputeLogicalRestartLSN over the table
\* tab, from entry i on
RECURSIVE LogicalRestartLsnScan(_, _, _)
LogicalRestartLsnScan(tab, i, result) ==
    IF i > max_replication_slots THEN result
    ELSE IF ~tab[i].in_use \/ tab[i].data.database = InvalidOid
         THEN LogicalRestartLsnScan(tab, i + 1, result)
         ELSE LET restart_lsn == tab[i].data.restart_lsn
              IN LogicalRestartLsnScan(tab, i + 1,
                    IF result = InvalidXLogRecPtr \/ restart_lsn < result
                    THEN restart_lsn ELSE result)

\* ReplicationSlotsComputeLogicalRestartLSN
ReplicationSlotsComputeLogicalRestartLSN(s) ==
    /\ Running(s) /\ s \in cfg.sessions /\ pc[s] = "idle"
    /\ res[s].op # "logical_lsn"
    /\ res' = [res EXCEPT ![s] =
                 [Started("logical_lsn", "") EXCEPT
                    !.status = "ok",
                    !.val = IF max_replication_slots <= 0 THEN InvalidXLogRecPtr
                            ELSE LogicalRestartLsnScan(slots, 1, InvalidXLogRecPtr)]]
    /\ UNCHANGED <<slots, my, pc, stk, loc, locks, disk, published, env, faults, hist>>

\* ReplicationSlotsComputeRequiredLSN is called
ComputeRequiredLSN(s) ==
    /\ Running(s) /\ s \in cfg.sessions /\ pc[s] = "idle"
    /\ res[s].op # "lsn"
    /\ pc' = [pc EXCEPT ![s] = "cl_scan"]
    /\ stk' = [stk EXCEPT ![s] = <<"done">>]
    /\ loc' = [loc EXCEPT ![s] = [LocInit EXCEPT !.op = "lsn"]]
    /\ res' = [res EXCEPT ![s] = Started("lsn", "")]
    /\ UNCHANGED <<slots, my, locks, disk, published, env, faults, hist>>

\* ReplicationSlotsComputeRequiredLSN is called with a repl_slt_state
ComputeRequiredLSNState(s) ==
    /\ Running(s) /\ s \in cfg.sessions /\ pc[s] = "idle"
    /\ res[s].op # "lsn_state"
    /\ pc' = [pc EXCEPT ![s] = "cl_scan"]
    /\ stk' = [stk EXCEPT ![s] = <<"done">>]
    /\ loc' = [loc EXCEPT ![s] = [LocInit EXCEPT !.op = "lsn_state"]]
    /\ res' = [res EXCEPT ![s] = Started("lsn_state", "")]
    /\ UNCHANGED <<slots, my, locks, disk, published, env, faults, hist>>

\* entry i of a table, in use or left by a dropped slot, of database db
\* (InvalidOid: physical) and with restart_lsn lsn
LsnEntry(i, u, db, lsn) ==
    [ZeroSlot EXCEPT !.in_use = u, !.data.name = NameOf(i),
                     !.data.database = db, !.data.restart_lsn = lsn]

LsnTables == [1..MaxSlots -> [in_use : BOOLEAN, db : {InvalidOid, 1}, lsn : Lsns]]

ServerModes == {"PRIMARY_MODE", "PENDING_MODE", "STANDBY_MODE"}

LsnCfg(mode) ==
    [sessions |-> {1}, names |-> {}, pers |-> {}, dbs |-> {}, dummies |-> {},
     faults |-> 0, kills |-> 0, corrupt |-> FALSE, server_mode |-> mode,
     max_slots |-> MaxSlots]

LsnInit ==
    \E t \in LsnTables, mode \in ServerModes :
        InitFrom(LsnCfg(mode),
                 [i \in DOMAIN t |-> LsnEntry(i, t[i].in_use, t[i].db, t[i].lsn)])

LsnNext ==
    \E s \in Sessions :
        \/ ReplicationSlotsComputeLogicalRestartLSN(s)
        \/ ComputeRequiredLSN(s) \/ ComputeRequiredLSNState(s)
        \/ ComputeLsnScan(s) \/ ComputeLsnPublish(s)

LsnSpec == LsnInit /\ [][LsnNext]_vars

\* the orders in which the slots can occupy the table
Orders == {f \in [SlotIds -> SlotIds] : \A i, j \in SlotIds : f[i] = f[j] => i = j}

LogicalReturned(s) == res[s].op = "logical_lsn" /\ res[s].status = "ok"

\* C15: logical_restart_lsn returns the same value whatever order the slots
\* occupy the table in, also when a logical slot has an INVALID restart_lsn
LogicalLsnOrderFree ==
    \A s \in Sessions :
        LogicalReturned(s) =>
            \A f \in Orders :
                res[s].val = LogicalRestartLsnScan([i \in SlotIds |-> slots[f[i]]], 1,
                                                   InvalidXLogRecPtr)


\* the restart_lsn values of the in_use slots recompute_required_lsn counts:
\* all of them on a primary or pending primary, the logical ones otherwise
CountedLsns ==
    {slots[i].data.restart_lsn : i \in
        {j \in SlotIds :
            /\ slots[j].in_use
            /\ \/ cfg.server_mode \in {"PRIMARY_MODE", "PENDING_MODE"}
               \/ slots[j].data.database # InvalidOid}}

LsnPublished(s) == res[s].op = "lsn" /\ res[s].status = "ok"

\* C16: what recompute_required_lsn published is, as minimum, the smallest
\* valid restart_lsn and, as maximum, the largest restart_lsn of the in_use
\* slots it counts, both INVALID when none of them has a valid restart_lsn;
\* physical slots are counted on a primary or pending primary only
RequiredLsnPublished ==
    \A s \in Sessions :
        LsnPublished(s) =>
            LET valid == CountedLsns \ {InvalidXLogRecPtr}
            IN IF valid = {}
               THEN xlogMin = InvalidXLogRecPtr /\ xlogMax = InvalidXLogRecPtr
               ELSE /\ xlogMin \in valid /\ \A l \in valid : xlogMin <= l
                    /\ xlogMax \in valid /\ \A l \in CountedLsns : l <= xlogMax

\* published on a standby from a logical slot, next to a physical slot with
\* a smaller restart_lsn
RequiredLsnPublishedSeen ==
    \E s \in Sessions :
        /\ LsnPublished(s)
        /\ cfg.server_mode = "STANDBY_MODE"
        /\ slots[1].in_use /\ slots[1].data.database = InvalidOid
        /\ slots[1].data.restart_lsn = 1
        /\ slots[2].in_use /\ slots[2].data.database # InvalidOid
        /\ slots[2].data.restart_lsn = 2
        /\ xlogMin = 2 /\ xlogMax = 2


\* --------------------------------------------------------- slot names
\* Names are strings of character codes; NAMEDATALEN is scaled down.
NAMEDATALEN == 3

\* the characters of the runs: the ends of the ranges a-z and 0-9 and their
\* neighbours, the six punctuation characters, an upper-case letter
Chars == {33, 45, 46, 47, 48, 57, 58, 60, 63, 65, 95, 96, 97, 122, 123}

RECURSIVE Strings(_)
Strings(n) ==
    IF n = 0 THEN {<<>>}
    ELSE LET shorter == Strings(n - 1)
         IN shorter \cup {Append(w, ch) : w \in {v \in shorter : Len(v) = n - 1}, ch \in Chars}

\* the arguments of ReplicationSlotValidateName: NULL, or a string of up to
\* NAMEDATALEN characters
NullName == [null |-> TRUE, chars |-> <<>>]
NameArgs == {NullName} \cup {[null |-> FALSE, chars |-> w] : w \in Strings(NAMEDATALEN)}

\* a length test that lets a name of NAMEDATALEN characters pass
LongerThanNameData(w) == Len(w) > NAMEDATALEN

\* strlen(name) >= NAMEDATALEN
TooLong(w) == Len(w) >= NAMEDATALEN

\* the test of one character in the loop of ReplicationSlotValidateName
CharAllowed(ch) ==
    \/ (ch >= 97 /\ ch <= 122)
    \/ (ch >= 48 /\ ch <= 57)
    \/ ch = 95 \/ ch = 63 \/ ch = 60 \/ ch = 33 \/ ch = 45 \/ ch = 46

\* ReplicationSlotValidateName: "" if the name is valid, else the error code
\* reported at elevel
ReplicationSlotValidateName(name) ==
    IF name.null THEN "INVALID_NAME"
    ELSE IF Len(name.chars) = 0 THEN "INVALID_NAME"
    ELSE IF TooLong(name.chars) THEN "NAME_TOO_LONG"
    ELSE IF \E k \in 1..Len(name.chars) : ~CharAllowed(name.chars[k]) THEN "INVALID_NAME"
    ELSE ""

\* a call of ReplicationSlotValidateName(name, elevel): it returns true, or
\* reports at elevel and, if this did not raise, returns false
ValidateNameCall(s) ==
    \E name \in cfg.names, elevel \in {"WARNING", "ERROR"} :
        /\ Running(s) /\ s \in cfg.sessions /\ pc[s] = "idle"
        /\ res[s].op # "validate"
        /\ LET code == ReplicationSlotValidateName(name)
           IN res' = [res EXCEPT ![s] =
                        [Started("validate", name) EXCEPT
                           !.status = IF code # "" /\ elevel = "ERROR" THEN "error" ELSE "ok",
                           !.msgs = IF code = "" THEN {} ELSE {code},
                           !.note = elevel,
                           !.val = (code = "")]]
        /\ UNCHANGED <<slots, my, pc, stk, loc, locks, disk, published, env, faults, hist>>

NameCfg(name) ==
    [sessions |-> {1}, names |-> {name}, pers |-> {}, dbs |-> {}, dummies |-> {},
     faults |-> 0, kills |-> 0, corrupt |-> FALSE, server_mode |-> "PRIMARY_MODE",
     max_slots |-> MaxSlots]

NameInit == \E name \in NameArgs : InitWith(NameCfg(name))

NameNext == \E s \in Sessions : ValidateNameCall(s)

NameSpec == NameInit /\ [][NameNext]_vars

\* the characters a-z, 0-9 and _ ? < ! - .
Grammar == (97..122) \cup (48..57) \cup {95, 63, 60, 33, 45, 46}

Validated(s) == res[s].op = "validate"

Find(s) ==
    \E n \in cfg.names :
        /\ Running(s) /\ s \in cfg.sessions /\ pc[s] = "idle"
        /\ res[s].op # "find"
        /\ res' = [res EXCEPT ![s] =
                     [Started("find", n) EXCEPT !.status = "ok",
                                                !.val = ReplicationSlotFind(n)]]
        /\ UNCHANGED <<slots, my, pc, stk, loc, locks, disk, published, env, faults, hist>>

\* ReplicationSlotsCountDBSlots for database dboid: <<result, nslots, nactive>>
ReplicationSlotsCountDBSlots(dboid) ==
    IF max_replication_slots <= 0 THEN <<FALSE, 0, 0>>
    ELSE LET counted == {i \in SlotIds : /\ slots[i].in_use
                                         /\ slots[i].data.database # InvalidOid
                                         /\ slots[i].data.database = dboid}
             nslots == Cardinality(counted)
             nactive == Cardinality({i \in counted : slots[i].active})
         IN <<nslots > 0, nslots, nactive>>

CountDBSlots(s) ==
    \E dboid \in cfg.dbs :
        /\ Running(s) /\ s \in cfg.sessions /\ pc[s] = "idle"
        /\ res[s].op # "count"
        /\ res' = [res EXCEPT ![s] =
                     [Started("count", "") EXCEPT !.status = "ok",
                                                  !.val = ReplicationSlotsCountDBSlots(dboid)]]
        /\ UNCHANGED <<slots, my, pc, stk, loc, locks, disk, published, env, faults, hist>>

\* CheckSlotRequirements: an ERROR when max_replication_slots is 0 or
\* wal_level is below archive
CheckSlotRequirements(s) ==
    /\ Running(s) /\ s \in cfg.sessions /\ pc[s] = "idle"
    /\ res[s].op # "check"
    /\ res' = [res EXCEPT ![s] =
                 IF max_replication_slots = 0 \/ cfg.wal_level = "minimal"
                 THEN [Started("check", "") EXCEPT !.status = "error",
                                                   !.msgs = {"NOT_CONFIGURED"}]
                 ELSE [Started("check", "") EXCEPT !.status = "ok"]]
    /\ UNCHANGED <<slots, my, pc, stk, loc, locks, disk, published, env, faults, hist>>

\* the state of a running server with the table of configuration c, empty,
\* and the directories d in pg_replslot, t those named <name>.tmp
InitOn(c, d, t) ==
    /\ slots = [i \in 1..c.max_slots |-> ZeroSlot]
    /\ my = [p \in Procs |-> 0]
    /\ pc = [p \in Procs |-> "idle"]
    /\ stk = [p \in Procs |-> <<>>]
    /\ loc = [p \in Procs |-> LocInit]
    /\ res = [p \in Procs |-> ResInit]
    /\ allocEx = NoProc
    /\ allocSh = {}
    /\ ioLock = [i \in 1..c.max_slots |-> NoProc]
    /\ dir = d
    /\ tdir = t
    /\ procXmin = InvalidTransactionId
    /\ procCatXmin = InvalidTransactionId
    /\ xlogMin = InvalidXLogRecPtr
    /\ xlogMax = InvalidXLogRecPtr
    /\ phase = "run"
    /\ faults = 0
    /\ kills = 0
    /\ cfg = c
    /\ hist = HistInit

\* the directory of a saved slot named n with persistency pers
LeftDir(n, pers) ==
    SavedDir([ZeroData EXCEPT !.name = n, !.persistency = pers, !.restart_lsn = 1])

\* what pg_replslot may hold: for each of two names nothing, a persistent
\* or an ephemeral slot
LeftDirs ==
    {[n \in Names |-> IF n = "a" THEN da ELSE IF n = "b" THEN db ELSE NoDir] :
        da \in {NoDir, LeftDir("a", "RS_PERSISTENT"), LeftDir("a", "RS_EPHEMERAL")},
        db \in {NoDir, LeftDir("b", "RS_PERSISTENT"), LeftDir("b", "RS_EPHEMERAL")}}

LeftTmpDirs == {[n \in Names |-> IF n = "a" THEN ta ELSE NoDir] : ta \in {NoDir, EmptyDir}}

DisabledCfg(wal) ==
    [sessions |-> Sessions, names |-> {"a"}, pers |-> {"RS_PERSISTENT"}, dbs |-> {InvalidOid, 1},
     dummies |-> {FALSE}, faults |-> 0, kills |-> MaxKills, corrupt |-> FALSE,
     server_mode |-> "PRIMARY_MODE", max_slots |-> 0, wal_level |-> wal]

DisabledInit ==
    \E wal \in {"minimal", "archive"}, d \in LeftDirs, t \in LeftTmpDirs :
        InitOn(DisabledCfg(wal), d, t)

DisabledStep ==
    \E p \in Procs :
        \/ ReplicationSlotCreate(p) \/ AcquireCheck(p)
        \/ ComputeXminScan(p) \/ ComputeXminPublish(p)
        \/ ComputeLsnScan(p)

DisabledNext ==
    \/ DisabledStep \/ Restart \/ CheckPoint \/ Create \/ Full \/ Acquire
    \/ \E s \in Sessions :
          \/ Find(s) \/ CountDBSlots(s) \/ CheckSlotRequirements(s)
          \/ ComputeRequiredXmin(s) \/ ComputeRequiredLSN(s)
          \/ ReplicationSlotsComputeLogicalRestartLSN(s)

DisabledSpec == DisabledInit /\ [][DisabledNext]_vars

\* C18: with MAX_SLOTS = 0 no operation panics, violates an assertion or
\* reports an error other than NOT_CONFIGURED, and none changes the table,
\* the ownership of slots or the published values
DisabledCleanly ==
    /\ max_replication_slots = 0
    /\ phase # "panic"
    /\ \A p \in Procs :
          /\ res[p].status = "error" => res[p].msgs = {"NOT_CONFIGURED"}
          /\ my[p] = 0
    /\ \A i \in SlotIds : ~slots[i].in_use
    /\ published = <<InvalidTransactionId, InvalidTransactionId,
                     InvalidXLogRecPtr, InvalidXLogRecPtr>>


\* ------------------------------------------------------- drops that are cut
\* Every session creates, acquires, releases and drops persistent and
\* ephemeral physical slots of one name; an I/O call may fail, the server
\* is killed at any step and started again.
CutCfg ==
    [sessions |-> Sessions, names |-> {"a"}, pers |-> {"RS_PERSISTENT", "RS_EPHEMERAL"},
     dbs |-> {0}, dummies |-> {FALSE}, faults |-> MaxFaults, kills |-> MaxKills,
     corrupt |-> FALSE, server_mode |-> "PRIMARY_MODE", max_slots |-> MaxSlots]

CutInit == InitWith(CutCfg)

CutNext ==
    \/ Step \/ Create \/ Acquire \/ Release \/ Drop \/ Restart
    \/ \E s \in Sessions : AcquireAfterDuplicate(s)

CutSpec == CutInit /\ [][CutNext]_vars

\* session s is inside ReplicationSlotDropAcquired
InDrop(s) ==
    \/ pc[s] \in {"da_lock", "da_rename", "da_clear", "da_rmtree"}
    \/ \E k \in DOMAIN stk[s] : stk[s][k] = "da_rmtree"

\* a startup that finds directory d can decode its state file
Decodable(d) == ~RestoreSlotFromDisk(d, [i \in SlotIds |-> ZeroSlot]).panic

\* C19: when a drop ends (it returns, it fails at the rename, or the server
\* is killed while it runs), every directory of pg_replslot that is not a
\* <name>.tmp holds a state file that startup can decode
DropEndsStep ==
    \A s \in Sessions :
        (InDrop(s) /\ (phase' = "down" \/ ~InDrop(s)'))
            => \A n \in Names : dir'[n].exists => Decodable(dir'[n])

DropLeavesDecodable == [][DropEndsStep]_vars


\* ------------------------------------------------- ephemeral slots, crashes
\* Every session creates, acquires, persists and releases an ephemeral
\* physical slot of one name; the server is killed at any step and started
\* again.  No I/O call fails.
GoneCfg ==
    [sessions |-> Sessions, names |-> {"a"}, pers |-> {"RS_EPHEMERAL"},
     dbs |-> {0}, dummies |-> {FALSE}, faults |-> 0, kills |-> MaxKills,
     corrupt |-> FALSE, server_mode |-> "PRIMARY_MODE", max_slots |-> MaxSlots]

GoneInit == InitWith(GoneCfg)

GoneNext ==
    \/ Step \/ Create \/ Acquire \/ Release \/ Persist \/ Restart
    \/ \E s \in Sessions : AcquireAfterDuplicate(s)

GoneSpec == GoneInit /\ [][GoneNext]_vars


\* the state file startup found in <n> records an ephemeral slot
FoundEphemeral(n) ==
    /\ hist.found[n].exists
    /\ hist.found[n].state.st = "rec" /\ RecordVerifies(hist.found[n].state)
    /\ hist.found[n].state.slotdata.persistency = "RS_EPHEMERAL"

\* ReplicationSlotPersist returned without an error for the slot named n,
\* and <n>/state was not replaced or removed since
Persisted(n) ==
    /\ hist.last[n] # NoData
    /\ hist.last[n].persistency = "RS_PERSISTENT"

\* C20: a startup that finds the state file of an ephemeral slot removes the
\* slot's directory and puts no entry for it in the table; a slot on which
\* persist() returned without an error is restored as in_use and PERSISTENT
EphemeralNeverSurvives ==
    \A n \in Names :
        phase \in {"up", "panic"} =>
            /\ FoundEphemeral(n) =>
                  /\ phase = "up"
                  /\ ~dir[n].exists
                  /\ InUseNamed(n) = {}
            /\ Persisted(n) =>
                  /\ phase = "up"
                  /\ \E i \in InUseNamed(n) :
                        slots[i].data.persistency = "RS_PERSISTENT"


\* ------------------------------------------------------------ checkpoint and failures
\* the state of a running server whose table is tab, with the directories d
\* in pg_replslot and t those named <name>.tmp, under configuration c
InitAt(c, tab, d, t) ==
    /\ slots = tab
    /\ my = [p \in Procs |-> 0]
    /\ pc = [p \in Procs |-> "idle"]
    /\ stk = [p \in Procs |-> <<>>]
    /\ loc = [p \in Procs |-> LocInit]
    /\ res = [p \in Procs |-> ResInit]
    /\ allocEx = NoProc
    /\ allocSh = {}
    /\ ioLock = [i \in DOMAIN tab |-> NoProc]
    /\ dir = d
    /\ tdir = t
    /\ procXmin = InvalidTransactionId
    /\ procCatXmin = InvalidTransactionId
    /\ xlogMin = InvalidXLogRecPtr
    /\ xlogMax = InvalidXLogRecPtr
    /\ phase = "run"
    /\ faults = 0
    /\ kills = 0
    /\ cfg = c
    /\ hist = HistInit

\* entry i of a table: zeroed, or a persistent physical slot in use, dirty or
\* clean
CkptEntry(i, u, dty) ==
    IF u THEN [ZeroSlot EXCEPT !.in_use = TRUE, !.dirty = dty, !.data.name = NameOf(i),
                               !.data.restart_lsn = 1]
    ELSE ZeroSlot

\* for each entry: whether it is in use, whether it is dirty, and whether
\* its directory is missing from pg_replslot (the case CheckFileExists tests)
CkptTables == [1..MaxSlots -> [in_use : BOOLEAN, dirty : BOOLEAN, lost : BOOLEAN]]

CkptCfg ==
    [sessions |-> {}, names |-> {}, pers |-> {"RS_PERSISTENT"}, dbs |-> {0},
     dummies |-> {FALSE}, faults |-> MaxFaults, kills |-> 0, corrupt |-> FALSE,
     server_mode |-> "PRIMARY_MODE", max_slots |-> MaxSlots]

CkptInit ==
    \E t \in CkptTables :
        InitAt(CkptCfg,
               [i \in DOMAIN t |-> CkptEntry(i, t[i].in_use, t[i].dirty)],
               [n \in Names |->
                  IF \E i \in DOMAIN t : NameOf(i) = n /\ t[i].in_use /\ ~t[i].lost
                  THEN SavedDir(CkptEntry(CHOOSE i \in DOMAIN t : NameOf(i) = n,
                                          TRUE, FALSE).data)
                  ELSE NoDir],
               [n \in Names |-> NoDir])

\* the statements of the functions the checkpoint calls
CkptStep ==
    \/ CreateSlotOnDisk(Ckpt) \/ CreateSlotRename(Ckpt) \/ SaveAfterCreate(Ckpt)
    \/ SaveCheck(Ckpt) \/ SaveOpenBackup(Ckpt) \/ SaveWriteBackup(Ckpt)
    \/ SaveOpenTmp(Ckpt) \/ SaveWriteTmp(Ckpt) \/ SaveRename(Ckpt) \/ SaveClear(Ckpt)

CkptNext == CheckPoint \/ CkptStep

\* CkptSpec: the checkpointer runs, again and again, over a table whose
\* slots in use are dirty or clean and have their directory or miss it; an
\* I/O call may fail.
CkptSpec == CkptInit /\ [][CkptNext]_vars

\* a step of the checkpoint that raises no error, leaves every in_use and
\* active flag as it is, and ends only after the last entry, with the
\* allocation lock released
CheckPointStep ==
    /\ res'[Ckpt].status # "error"
    /\ \A i \in SlotIds : /\ slots'[i].in_use = slots[i].in_use
                          /\ slots'[i].active = slots[i].active
    /\ pc[Ckpt] # "idle" /\ pc'[Ckpt] = "idle" =>
          /\ loc[Ckpt].i > max_replication_slots
          /\ Ckpt \notin allocSh'

\* C21: the checkpoint never fails: when persisting one slot in use fails (an
\* I/O failure in SaveSlotToPath, or in CreateSlotOnDisk when the slot's
\* directory is missing), it still visits every remaining slot in use,
\* releases the allocation lock and returns normally; it changes no slot's
\* in_use or active flag.
CheckPointNeverFails == [][CheckPointStep]_vars


\* ------------------------------------------------------------ lock order
\* The lock events of each function, in program order, for every path
\* through it.  A path is a sequence of events: a lock of slot i (0: a lock
\* of the server) is acquired or released, or ereport(ERROR) leaves the
\* function and every function above it.
Acq(l, i, m) == [e |-> "acq", lock |-> l, slot |-> i, mode |-> m, kind |-> ""]

Rel(l, i) == [e |-> "rel", lock |-> l, slot |-> i, mode |-> "", kind |-> ""]

\* ereport(ERROR) with the error kind
Raise(kind) == [e |-> "error", lock |-> "", slot |-> 0, mode |-> "", kind |-> kind]

Err == Raise("ERROR")

\* a call that reads or changes files: open, write, fsync, close, rename,
\* mkdir, rmtree
FileIO == [e |-> "io", lock |-> "", slot |-> 0, mode |-> "", kind |-> ""]

\* a file call that returns an error
FailedIO == [FileIO EXCEPT !.kind = "failed"]

\* the paths of A followed by the paths of B; a path that ends in an ERROR
\* is not continued
Then(A, B) ==
    {IF a # <<>> /\ a[Len(a)].e = "error" THEN a ELSE a \o b : a \in A, b \in B}

\* SpinLockAcquire(&slot->mutex) ... SpinLockRelease(&slot->mutex)
Mutex(i) == <<Acq("mutex", i, "EXCLUSIVE"), Rel("mutex", i)>>

\* a scan of the table under ReplicationSlotControlLock, shared: no entry
\* is in use, or the mutex of an entry is taken for the read
Scan(i) ==
    Then({<<Acq("control", 0, "SHARED")>>},
         Then({<<>>, Mutex(i)}, {<<Rel("control", 0)>>}))

\* what ereport(elevel) does after the io lock was released
Reported(lvl) == IF lvl = "ERROR" THEN <<Err>> ELSE <<>>

\* SaveSlotToPath: the slot is clean; or the io lock is taken and an open,
\* a write or the rename fails; or the save completes
SaveSlotToPathLocks(i, lvl) ==
    LET io == <<Acq("io", i, "EXCLUSIVE")>>
        fail == <<Rel("io", i)>> \o Reported(lvl)
        f == <<FileIO>>
        ff == <<FailedIO>>
    IN {Mutex(i),
        Mutex(i) \o io \o ff \o fail,
        Mutex(i) \o io \o f \o Mutex(i) \o ff \o fail,
        Mutex(i) \o io \o f \o Mutex(i) \o f \o f \o Mutex(i) \o ff \o fail,
        Mutex(i) \o io \o f \o Mutex(i) \o f \o f \o Mutex(i) \o f \o f \o Mutex(i)
            \o <<Rel("io", i)>>}

\* CreateSlotOnDisk: rmtree or mkdir fails, or SaveSlotToPath at ERROR runs
\* on the dirty slot and the rename of the directory succeeds or fails
CreateSlotOnDiskLocks(i) ==
    {<<FailedIO, Err>>}
    \cup Then({<<FileIO>>},
          Then(SaveSlotToPathLocks(i, "ERROR") \ {Mutex(i)}, {<<FileIO>>, <<FailedIO, Err>>}))

\* ProcArraySetReplicationSlotXmin: takes ProcArrayLock unless already_locked
ProcArraySetReplicationSlotXminLocks(already_locked) ==
    IF already_locked THEN {<<>>}
    ELSE {<<Acq("procarray", 0, "EXCLUSIVE"), Rel("procarray", 0)>>}

\* ReplicationSlotsComputeRequiredXmin(already_locked)
ComputeRequiredXminLocks(i, already_locked) ==
    Then(Scan(i), ProcArraySetReplicationSlotXminLocks(already_locked))

\* a scan loop that leaves an entry by a branch that does not release the
\* spinlock
LsnLoopLeaks(i) == {Mutex(i), <<Acq("mutex", i, "EXCLUSIVE")>>}

\* one turn of the scan loop of ReplicationSlotsComputeRequiredLSN: the
\* spinlock is taken, and released at lock_release (physical slot on a
\* standby, entry not in use) or after restart_lsn was read
LsnLoop(i) == {Mutex(i)}

\* ReplicationSlotsComputeRequiredLSN, ReplicationSlotsComputeLogicalRestartLSN
\* and ReplicationSlotsCountDBSlots: a scan, or a return before it
ComputeRequiredLSNLocks(i) ==
    {<<>>} \cup Scan(i)
    \cup Then({<<Acq("control", 0, "SHARED")>>}, Then(LsnLoop(i), {<<Rel("control", 0)>>}))

\* ReplicationSlotAcquire: the slot is found, or not; an ERROR follows the
\* release of the control lock
ReplicationSlotAcquireLocks(i) == Then(Scan(i), {<<>>, <<Err>>})

\* ReplicationSlotDropAcquired: the rename succeeds, or fails on an
\* ephemeral slot (WARNING) or on a persistent one (ERROR)
ReplicationSlotDropAcquiredLocks(i) ==
    Then({<<Acq("alloc", 0, "EXCLUSIVE")>>},
    Then({<<FileIO>>, <<FailedIO>> \o Mutex(i), <<FailedIO>> \o Mutex(i) \o <<Err>>},
    Then({<<Acq("control", 0, "EXCLUSIVE"), Rel("control", 0)>>},
    Then(ComputeRequiredXminLocks(i, FALSE),
    Then(ComputeRequiredLSNLocks(i), {<<FileIO, Rel("alloc", 0)>>})))))

\* ReplicationSlotCreate: the name is in use (the locks are released; ERROR
\* for a logical slot, ReplicationSlotAcquire for a physical one), the table
\* is full, or the slot is made
ReplicationSlotCreateLocks(i) ==
    Then({<<Acq("alloc", 0, "EXCLUSIVE"), Acq("control", 0, "SHARED")>>},
         Then({<<Rel("control", 0), Rel("alloc", 0)>>},
              {<<Raise("DUPLICATE")>>} \cup ReplicationSlotAcquireLocks(i))
         \cup {<<Rel("control", 0), Raise("CAPACITY")>>}
         \cup Then({<<Rel("control", 0)>>},
              Then(CreateSlotOnDiskLocks(i),
                   {<<Acq("control", 0, "EXCLUSIVE")>> \o Mutex(i)
                    \o <<Rel("control", 0), Rel("alloc", 0)>>})))

\* ReplicationSlotRelease: no active slot; or the ephemeral slot is dropped
\* or the slot marked inactive, effective_xmin is cleared or not, and the
\* decoding flag is cleared under ProcArrayLock
ReplicationSlotReleaseLocks(i) ==
    {<<>>} \cup
    Then(ReplicationSlotDropAcquiredLocks(i) \cup {Mutex(i)},
    Then({<<>>} \cup Then({Mutex(i)}, ComputeRequiredXminLocks(i, FALSE)),
         {<<Acq("procarray", 0, "EXCLUSIVE"), Rel("procarray", 0)>>}))

\* ReplicationSlotSave: CreateSlotOnDisk if the directory is missing, then
\* SaveSlotToPath at ERROR
ReplicationSlotSaveLocks(i) ==
    Then({<<>>} \cup CreateSlotOnDiskLocks(i), SaveSlotToPathLocks(i, "ERROR"))

\* CheckPointReplicationSlots, for a table with no slot in use or with one
CheckPointLocks(i) ==
    Then({<<Acq("alloc", 0, "SHARED")>>},
    Then({<<>>} \cup Then({<<>>} \cup CreateSlotOnDiskLocks(i),
                          SaveSlotToPathLocks(i, "LOG")),
         {<<Rel("alloc", 0)>>}))

\* ReplicationSlotPersist before its ReplicationSlotSave: the persistency is
\* set under LogicalReplicationSlotPersistentDataLock and the spinlock, then
\* ReplicationSlotMarkDirty
ReplicationSlotPersistLocks(i) ==
    {<<Acq("upgrade", 0, "EXCLUSIVE")>> \o Mutex(i) \o <<Rel("upgrade", 0)>> \o Mutex(i)}

\* a caller that holds ProcArrayLock and passes already_locked = false
LockedCallerPassesFalse(i) ==
    Then({<<Acq("procarray", 0, "EXCLUSIVE")>>},
    Then(ComputeRequiredXminLocks(i, FALSE), {<<Rel("procarray", 0)>>}))

\* a caller that holds ProcArrayLock and passes already_locked = true
AlreadyLockedCaller(i) ==
    Then({<<Acq("procarray", 0, "EXCLUSIVE")>>},
    Then(ComputeRequiredXminLocks(i, TRUE), {<<Rel("procarray", 0)>>}))

\* the paths of the operations on slot i
LockPaths(i) ==
    [create |-> ReplicationSlotCreateLocks(i),
     acquire |-> ReplicationSlotAcquireLocks(i),
     find |-> {<<Acq("control", 0, "SHARED"), Rel("control", 0)>>},
     release |-> ReplicationSlotReleaseLocks(i),
     drop |-> Then(ReplicationSlotAcquireLocks(i), ReplicationSlotDropAcquiredLocks(i)),
     save |-> ReplicationSlotSaveLocks(i),
     mark_dirty |-> {Mutex(i)},
     set_lsn |-> {<<>>} \cup Then({Mutex(i) \o Mutex(i)}, ComputeRequiredLSNLocks(i)),
     persist |-> Then(ReplicationSlotPersistLocks(i), ReplicationSlotSaveLocks(i)),
     xmin |-> ComputeRequiredXminLocks(i, FALSE),
     xmin_locked |-> AlreadyLockedCaller(i),
     lsn |-> ComputeRequiredLSNLocks(i),
     checkpoint |-> CheckPointLocks(i),
     startup |-> Then(ComputeRequiredXminLocks(i, FALSE), ComputeRequiredLSNLocks(i))]

\* an operation is called on slot i; it runs one of its paths
LockCall(s) ==
    /\ Running(s) /\ s \in cfg.sessions /\ pc[s] = "idle"
    /\ \E i \in SlotIds : \E op \in DOMAIN LockPaths(i) : \E path \in LockPaths(i)[op] :
         /\ loc' = [loc EXCEPT ![s] = [LocInit EXCEPT !.op = op, !.slot = i, !.path = path]]
         /\ res' = [res EXCEPT ![s] = Started(op, "")]
    /\ pc' = [pc EXCEPT ![s] = "lock"]
    /\ stk' = [stk EXCEPT ![s] = <<"done">>]
    /\ UNCHANGED <<slots, my, locks, disk, published, env, faults, hist>>

\* LWLockAcquire / SpinLockAcquire grants the lock when no process holds
\* it (the locks are not reentrant), or all hold and ask it shared
Grantable(p, ev) ==
    \A q \in Procs : \A k \in DOMAIN loc[q].held :
        loc[q].held[k].lock = ev.lock /\ loc[q].held[k].slot = ev.slot =>
            loc[q].held[k].mode = "SHARED" /\ ev.mode = "SHARED"

\* the next event of the path is an acquisition, and the lock is granted
LockAcquire(s) ==
    /\ Running(s) /\ pc[s] = "lock" /\ loc[s].path # <<>>
    /\ LET ev == Head(loc[s].path)
       IN /\ ev.e = "acq"
          /\ Grantable(s, ev)
          /\ loc' = [loc EXCEPT ![s].path = Tail(@), ![s].held = Append(@, ev)]
          /\ allocEx' = IF ev.lock = "alloc" /\ ev.mode = "EXCLUSIVE" THEN s ELSE allocEx
          /\ allocSh' = IF ev.lock = "alloc" /\ ev.mode = "SHARED" THEN allocSh \cup {s}
                        ELSE allocSh
          /\ ioLock' = IF ev.lock = "io" THEN [ioLock EXCEPT ![ev.slot] = s] ELSE ioLock
    /\ UNCHANGED <<slots, my, pc, stk, res, disk, published, env, faults, hist>>

\* the locks in held other than the one event ev releases
Released(held, ev) ==
    SelectSeq(held, LAMBDA h : ~(h.lock = ev.lock /\ h.slot = ev.slot))

\* the next event of the path is a release
LockRelease(s) ==
    /\ Running(s) /\ pc[s] = "lock" /\ loc[s].path # <<>>
    /\ LET ev == Head(loc[s].path)
       IN /\ ev.e = "rel"
          /\ loc' = [loc EXCEPT ![s].path = Tail(@), ![s].held = Released(@, ev)]
          /\ allocEx' = IF ev.lock = "alloc" /\ allocEx = s THEN NoProc ELSE allocEx
          /\ allocSh' = IF ev.lock = "alloc" THEN allocSh \ {s} ELSE allocSh
          /\ ioLock' = IF ev.lock = "io" THEN [ioLock EXCEPT ![ev.slot] = NoProc] ELSE ioLock
    /\ UNCHANGED <<slots, my, pc, stk, res, disk, published, env, faults, hist>>

\* the next event of the path is an ERROR: every lock is released
LockError(s) ==
    /\ Running(s) /\ pc[s] = "lock" /\ loc[s].path # <<>>
    /\ Head(loc[s].path).e = "error"
    /\ RaiseError(s, Head(loc[s].path).kind)
    /\ UNCHANGED <<slots, my, disk, published, env, faults, hist>>

\* the next event of the path is a file call
LockFileIO(s) ==
    /\ Running(s) /\ pc[s] = "lock" /\ loc[s].path # <<>>
    /\ Head(loc[s].path).e = "io"
    /\ loc' = [loc EXCEPT ![s].path = Tail(@)]
    /\ UNCHANGED <<slots, my, pc, stk, res, locks, disk, published, env, faults, hist>>

\* the path is at its end: the operation returns
LockReturn(s) ==
    /\ Running(s) /\ pc[s] = "lock" /\ loc[s].path = <<>>
    /\ Finish(s, {})
    /\ UNCHANGED <<slots, my, locks, disk, published, env, faults, hist>>

LockCfg ==
    [sessions |-> {1}, names |-> {}, pers |-> {}, dbs |-> {}, dummies |-> {},
     faults |-> 0, kills |-> 0, corrupt |-> FALSE, server_mode |-> "PRIMARY_MODE",
     max_slots |-> MaxSlots]

LockInit == InitWith(LockCfg)

LockNext ==
    \E s \in Sessions :
        \/ LockCall(s) \/ LockAcquire(s) \/ LockRelease(s) \/ LockError(s) \/ LockReturn(s)
        \/ LockFileIO(s)

\* LockSpec: a session calls the operations one after another, each on any
\* slot and along any of its paths.
LockSpec == LockInit /\ [][LockNext]_vars

\* the place of a lock in the order ReplicationSlotAllocationLock,
\* ReplicationSlotControlLock, ProcArrayLock, io_in_progress_lock, mutex
\* (LogicalReplicationSlotPersistentDataLock is not in the order: it is taken
\* with no lock held, and only the spinlock is taken under it)
LockRank(l) ==
    CASE l = "alloc" -> 1 [] l = "control" -> 2 [] l = "procarray" -> 3
      [] l = "io" -> 4 [] l = "mutex" -> 5 [] l = "upgrade" -> 0

\* C22: every lock acquisition respects the order allocation lock, control
\* lock, process-array lock, per-slot io lock, per-slot spinlock: no session
\* acquires a lock while it holds one that comes later in the order, for
\* every operation and every parameter value (already_locked true or false).
LockOrderRespected ==
    \A p \in Procs : \A k, m \in DOMAIN loc[p].held :
        k < m => LockRank(loc[p].held[k].lock) <= LockRank(loc[p].held[m].lock)


\* ------------------------------------------------------------ the published xmin
\* the xmin values of the slots found on disk: none, two close to each
\* other, and one half of the transaction-id space after the first
AggXmins == {InvalidTransactionId, 1, 2, 1 + XidModulus \div 2}

\* the directory of a saved persistent slot named n whose xmin is x
AggDir(n, x) == SavedDir([ZeroData EXCEPT !.name = n, !.xmin = x, !.restart_lsn = 1])

\* pg_replslot holds the slots a and b
AggDirs ==
    {[n \in Names |-> IF n = "a" THEN AggDir("a", xa)
                      ELSE IF n = "b" THEN AggDir("b", xb) ELSE NoDir] :
        xa \in AggXmins, xb \in AggXmins}

AggCfg ==
    [sessions |-> Sessions, names |-> {"a", "b"}, pers |-> {"RS_PERSISTENT"}, dbs |-> {0},
     dummies |-> {FALSE}, faults |-> 0, kills |-> MaxKills, corrupt |-> FALSE,
     server_mode |-> "PRIMARY_MODE", max_slots |-> MaxSlots]

AggInit == \E d \in AggDirs : InitOn(AggCfg, d, [n \in Names |-> NoDir])

AggStep ==
    \E p \in Procs :
        \/ ComputeXminScan(p) \/ ComputeXminPublish(p)
        \/ ComputeLsnScan(p) \/ ComputeLsnPublish(p)
        \/ AcquireCheck(p)
        \/ DropAcquiredLock(p) \/ DropAcquiredRename(p) \/ DropAcquiredClear(p)
        \/ DropAcquiredRmtree(p)

AggNext ==
    \/ AggStep \/ Drop \/ Restart
    \/ \E s \in Sessions : ComputeRequiredXmin(s)

\* AggSpec: the server is started on a pg_replslot that holds two saved
\* slots with their xmin; sessions drop slots and recompute the required
\* xmin.
AggSpec == AggInit /\ [][AggNext]_vars

\* no ReplicationSlotsComputeRequiredXmin is between its scan and its
\* publication
NoXminInProgress == \A p \in Procs : pc[p] \notin {"cx_scan", "cx_pub"}

\* C23, as stated: whenever no recompute_required_xmin is in progress, the
\* effective_xmin of every slot in use is INVALID or at or before the
\* published aggregate xmin
EffectiveXminBeforePublished ==
    NoXminInProgress =>
        \A i \in SlotIds :
            slots[i].in_use =>
                \/ ~TransactionIdIsValid(slots[i].effective_xmin)
                \/ slots[i].effective_xmin = procXmin
                \/ TransactionIdPrecedes(slots[i].effective_xmin, procXmin)

\* the valid effective_xmin values of the slots that were in use since the
\* server started: no entry is reused here and a drop leaves the entry's
\* fields, so they are those of the table's entries
XminsSinceStartup ==
    {x \in Xids : TransactionIdIsValid(x) /\ \E i \in SlotIds : slots[i].effective_xmin = x}

\* C23, amended: whenever no recompute_required_xmin is in progress and the
\* valid effective_xmin values of the slots in use since the server started
\* lie within half of the transaction-id space of each other, the published
\* aggregate xmin is valid if a slot in use has a valid effective_xmin, and
\* no slot in use has an effective_xmin before it
PublishedNotAfterEffectiveXmin ==
    (NoXminInProgress /\ ValidXmins("xmin") # {} /\ Comparable(XminsSinceStartup)) =>
        /\ TransactionIdIsValid(procXmin)
        /\ \A i \in SlotIds :
              (slots[i].in_use /\ TransactionIdIsValid(slots[i].effective_xmin)) =>
                  ~TransactionIdPrecedes(slots[i].effective_xmin, procXmin)

\* two slots in use with different xmin, the older one published; and,
\* after the older one was dropped, the other one published
PublishedNotAfterSeen ==
    /\ NoXminInProgress /\ phase = "run"
    /\ \E s \in Sessions : res[s].op = "drop" /\ res[s].status = "ok" /\ pc[s] = "idle"
    /\ \E i \in SlotIds : /\ slots[i].in_use /\ slots[i].effective_xmin = 2
                          /\ \A j \in SlotIds \ {i} : ~slots[j].in_use
    /\ procXmin = 2


\* ------------------------------------------------------------ repl_slt_state
\* C24: when recompute_required_lsn is given a state_out, it sets
\* exists_in_use to true exactly when at least one entry of the table is in
\* use at the scan instant, whatever the server mode and whatever the kind,
\* physical or logical, of the slots in use
ExistInUseExact ==
    \A s \in Sessions :
        (res[s].op = "lsn_state" /\ res[s].status = "ok") =>
            (res[s].val.exist_in_use <=> \E i \in SlotIds : slots[i].in_use)


\* ------------------------------------------------------------ drop and owners
\* a step in which ReplicationSlotDropAcquired of session s clears active
\* and in_use of its slot's entry
DropClears(s) == pc[s] = "da_clear" /\ pc'[s] = "cx_scan"

DropClearsStep ==
    \A s \in Sessions :
        DropClears(s) => \A q \in Sessions \ {s} : my[q] # loc[s].slot

\* C25: whenever drop_acquired clears in_use and active of an entry, no
\* session other than the dropping one has that entry as its current slot:
\* drop(name) never frees a slot another session owns
DropFreesUnownedOnly == [][DropClearsStep]_vars


\* ------------------------------------------------------------ the two copies
\* C26: when SaveSlotToPath has completed successfully (the files are
\* written, renamed and fsynced), <dir>/state and <dir>/state.backup hold the
\* same record, also when the slot's owner changes the slot's persistent
\* fields while the checkpointer saves the slot
SavedTwiceSame ==
    \A p \in Procs :
        (pc[p] = "sv_clear" /\ SaveDir(p).exists) =>
            SaveDir(p).state = SaveDir(p).backup


\* ------------------------------------------------------------ drop, rename fails
\* a step in which the rename of <name> to <name>.tmp by the
\* ReplicationSlotDropAcquired of session s fails
DropRenameFails(s) ==
    pc[s] = "da_rename" /\ pc'[s] # "da_rename" /\ dir' = dir /\ phase' = "run"

DropAbortedStep ==
    \A s \in Sessions :
        DropRenameFails(s) =>
            /\ pc'[s] # "da_clear"
            /\ ~slots'[loc[s].slot].active
            /\ slots'[loc[s].slot].in_use = slots[loc[s].slot].in_use
            /\ slots'[loc[s].slot].data = slots[loc[s].slot].data
            /\ disk' = disk

\* C27: when the rename of <name> to <name>.tmp fails in drop_acquired, the
\* drop is aborted, for a persistent and for an ephemeral slot alike: the
\* slot is marked inactive and stays in_use, its directory stays in place,
\* nothing of the slot is removed in memory or on disk
DropAbortedOnRenameFailure == [][DropAbortedStep]_vars


\* -------------------------------------------- the retry on state.backup
\* startup found <n>/state holding a whole record that fails verification
StateFailsVerification(n) ==
    LET f == hist.found[n]
    IN /\ phase \in {"up", "panic"}
       /\ f.exists
       /\ f.state.st = "rec" /\ ~RecordVerifies(f.state)

\* C28: whenever RestoreSlotFromDisk finds that <name>/state fails
\* verification it warns and retries from <name>/state.backup, and startup
\* ends in a PANIC only if the state.backup it found fails verification
\* too, also when <name>/state.tmp was there at startup
AlwaysRetriesFromBackup ==
    \A n \in Names :
        StateFailsVerification(n) =>
            /\ n \in hist.tried
            /\ phase = "panic" =>
                   ~(hist.found[n].backup.st = "rec" /\ RecordVerifies(hist.found[n].backup))

\* the same for the directories startup found without a state.tmp
RetriesWithoutTmp ==
    \A n \in Names :
        StateFailsVerification(n) /\ hist.found[n].tmp.st = "none" =>
            /\ n \in hist.tried
            /\ phase = "panic" =>
                   ~(hist.found[n].backup.st = "rec" /\ RecordVerifies(hist.found[n].backup))


\* ------------------------------------------------- a create that is killed
\* the fields of record d that ReplicationSlotCreate takes as arguments
ArgsOf(d) ==
    [name |-> d.name, persistency |-> d.persistency, isDummyStandby |-> d.isDummyStandby,
     database |-> d.database, restart_lsn |-> d.restart_lsn]

\* after the startup that follows a kill, for every create of a persistent
\* slot the kill interrupted: startup did not end in a PANIC, no <name>.tmp
\* is left, and either no entry in use has the name or one has it, is
\* inactive and holds the arguments of the create
KilledCreateRestored ==
    phase \in {"up", "panic"} =>
        \A c \in hist.cut :
            c.persistency = "RS_PERSISTENT" =>
                /\ phase = "up"
                /\ ~tdir[c.name].exists
                /\ \/ FindSlot(c.name) = 0
                   \/ /\ ~slots[FindSlot(c.name)].active
                      /\ ArgsOf(TableData(c.name)) = c

\* ReplicationSlotCreate sets in_use of a persistent slot only when
\* pg_replslot/<name> exists and its state file holds the slot's record
FlipAfterRename ==
    \A s \in Sessions :
        (pc[s] = "cr_flip" /\ pc'[s] # "cr_flip" /\ phase' = "run"
         /\ loc[s].pers = "RS_PERSISTENT") =>
            LET n == loc[s].name
            IN /\ slots'[loc[s].slot].in_use
               /\ dir[n].exists /\ ~tdir[n].exists
               /\ dir[n].state.st = "rec" /\ RecordVerifies(dir[n].state)
               /\ ArgsOf(dir[n].state.slotdata) = CreateArgs(s)

\* C29: a kill at any point of the create of a persistent slot leaves
\* directories from which the next startup, without a PANIC, restores
\* either no slot of that name (and removes <name>.tmp) or an inactive
\* slot in use with the arguments of the create; and in_use is set in
\* memory only after pg_replslot/<name> with its state file is in place
KilledCreateIsAtomic == []KilledCreateRestored /\ [][FlipAfterRename]_vars

\* a startup after a kill that interrupted a create restored the slot
KilledCreateRestoredSeen ==
    /\ phase = "up"
    /\ \E c \in hist.cut : /\ c.persistency = "RS_PERSISTENT"
                           /\ FindSlot(c.name) # 0
                           /\ ArgsOf(TableData(c.name)) = c


\* ------------------------------------------------ create of a name in use
\* session s takes a step of a ReplicationSlotCreate that finds, or has
\* found, its name in use
DuplicateCreate(s) ==
    /\ phase' = "run" /\ pc'[s] # pc[s]
    /\ \/ pc[s] = "cr_lock" /\ NameCollision(loc[s].name)
       \/ pc[s] # "idle" /\ res[s].op = "create" /\ "DUPLICATE" \in res[s].msgs

\* the step changes no in_use or active flag and nothing on disk, and when
\* it ends the create, the create has failed with DUPLICATE and the session
\* has no current slot
DuplicateCreateStep ==
    \A s \in Sessions :
        DuplicateCreate(s) =>
            /\ \A i \in SlotIds : /\ slots'[i].in_use = slots[i].in_use
                                  /\ slots'[i].active = slots[i].active
            /\ disk' = disk
            /\ pc'[s] = "idle" =>
                   /\ res'[s].status = "error" /\ "DUPLICATE" \in res'[s].msgs
                   /\ my'[s] = 0

\* C30: a create of a name that is already in use, physical or logical,
\* fails with DUPLICATE and has no effect: no in_use or active flag and
\* nothing on disk changes, and the session has no current slot afterwards
DuplicateCreateFails == [][DuplicateCreateStep]_vars

\* the same for the creates of logical slots only
LogicalDuplicateStep ==
    \A s \in Sessions :
        DuplicateCreate(s) /\ loc[s].db # InvalidOid =>
            /\ \A i \in SlotIds : /\ slots'[i].in_use = slots[i].in_use
                                  /\ slots'[i].active = slots[i].active
            /\ disk' = disk
            /\ pc'[s] = "idle" =>
                   /\ res'[s].status = "error" /\ "DUPLICATE" \in res'[s].msgs
                   /\ my'[s] = 0

LogicalDuplicateCreateFails == [][LogicalDuplicateStep]_vars


\* ------------------------------------------------ locks at a failed create
\* session s is about to raise the error kind of ReplicationSlotCreate
RaisesNext(s, kind) ==
    /\ pc[s] = "lock" /\ loc[s].op = "create" /\ loc[s].path # <<>>
    /\ Head(loc[s].path).e = "error" /\ Head(loc[s].path).kind = kind

\* session s holds the allocation lock or the control lock
HoldsTableLock(s) ==
    \E k \in DOMAIN loc[s].held : loc[s].held[k].lock \in {"alloc", "control"}

\* C31: when ReplicationSlotCreate fails with DUPLICATE or CAPACITY, the
\* session holds neither the allocation lock nor the control lock at the
\* moment the error is raised
CreateErrorHoldsNoLock ==
    \A s \in Sessions :
        RaisesNext(s, "DUPLICATE") \/ RaisesNext(s, "CAPACITY") => ~HoldsTableLock(s)

\* the same for DUPLICATE alone
DuplicateHoldsNoLock ==
    \A s \in Sessions : RaisesNext(s, "DUPLICATE") => ~HoldsTableLock(s)


\* ------------------------------------------------------ what startup leaves
\* the state of a server that has not run StartupReplicationSlots yet, with
\* configuration c, the directories d in pg_replslot and t named <name>.tmp
InitDown(c, d, t) ==
    /\ slots = [i \in 1..c.max_slots |-> ZeroSlot]
    /\ my = [p \in Procs |-> 0]
    /\ pc = [p \in Procs |-> "idle"]
    /\ stk = [p \in Procs |-> <<>>]
    /\ loc = [p \in Procs |-> LocInit]
    /\ res = [p \in Procs |-> ResInit]
    /\ allocEx = NoProc
    /\ allocSh = {}
    /\ ioLock = [i \in 1..c.max_slots |-> NoProc]
    /\ dir = d
    /\ tdir = t
    /\ procXmin = InvalidTransactionId
    /\ procCatXmin = InvalidTransactionId
    /\ xlogMin = InvalidXLogRecPtr
    /\ xlogMax = InvalidXLogRecPtr
    /\ phase = "down"
    /\ faults = 0
    /\ kills = 0
    /\ cfg = c
    /\ hist = HistInit

\* the records a slot named n may have been saved with: persistent slots,
\* physical and logical, with xmin values around the end of the id space,
\* and an ephemeral slot
StartRecords(n) ==
    {[ZeroData EXCEPT !.name = n, !.database = db, !.xmin = x, !.catalog_xmin = cx,
                      !.restart_lsn = lsn] :
        db \in {InvalidOid, 1}, x \in {InvalidTransactionId, 1, XidModulus - 1},
        cx \in {InvalidTransactionId, 2}, lsn \in {InvalidXLogRecPtr, 1, 2}}
    \cup {[ZeroData EXCEPT !.name = n, !.persistency = "RS_EPHEMERAL", !.restart_lsn = 1]}

\* what pg_replslot/<n> may be at startup: missing, or the directory of a
\* saved slot
StartDirsOf(n) == {NoDir} \cup {SavedDir(r) : r \in StartRecords(n)}

StartDirs ==
    {[n \in Names |-> IF n = "a" THEN da ELSE IF n = "b" THEN db ELSE NoDir] :
        da \in StartDirsOf("a"), db \in StartDirsOf("b")}

\* what is left of <name>.tmp directories: none, or a.tmp from a create or
\* a drop that a crash interrupted
StartTmpDirs ==
    {[n \in Names |-> NoDir],
     [n \in Names |-> IF n = "a" THEN SavedDir([ZeroData EXCEPT !.name = "a"]) ELSE NoDir]}

StartCfg(mode) ==
    [sessions |-> {}, names |-> {"a", "b"}, pers |-> {}, dbs |-> {}, dummies |-> {},
     faults |-> 0, kills |-> MaxKills, corrupt |-> FALSE, server_mode |-> mode,
     max_slots |-> MaxSlots]

StartInit ==
    \E d \in StartDirs, t \in StartTmpDirs, mode \in {"PRIMARY_MODE", "STANDBY_MODE"} :
        InitDown(StartCfg(mode), d, t)

StartNext == Kill \/ StartupReplicationSlots \/ Serve

\* StartSpec: the server is started on a pg_replslot that holds up to two
\* saved slots and possibly a left-over a.tmp, serves, is killed and is
\* started again.
StartSpec == StartInit /\ [][StartNext]_vars

\* the records of persistent slots in the state files startup found
FoundRecords ==
    {hist.found[n].state.slotdata : n \in
        {m \in Names : /\ hist.found[m].exists
                       /\ hist.found[m].state.slotdata.persistency = "RS_PERSISTENT"}}

SpinlockIsLeaf ==
    \A p \in Procs : \A k \in DOMAIN loc[p].held :
        loc[p].held[k].lock = "mutex" =>
            /\ k = Len(loc[p].held)
            /\ loc[p].path # <<>>
            /\ Head(loc[p].path) = Rel("mutex", loc[p].held[k].slot)

\* a session inside the scan loop of recompute_required_lsn holds the
\* control lock and the spinlock of an entry
SpinlockHeldSeen ==
    \E s \in Sessions :
        /\ loc[s].op = "lsn" /\ Len(loc[s].held) = 2
        /\ loc[s].held[1].lock = "control" /\ loc[s].held[2].lock = "mutex"


\* ------------------------------------------- one at a time on a directory
\* process p is inside CreateSlotOnDisk for the name n
InCreateSlotOnDisk(p, n) ==
    \/ pc[p] = "cod_mkdir" /\ slots[loc[p].cod_slot].data.name = n
    \/ /\ loc[p].cod_name = n
       /\ \/ pc[p] = "cod_rename"
          \/ \E k \in DOMAIN stk[p] : stk[p][k] = "cod_rename"

\* process p is in ReplicationSlotDropAcquired for the name n, at the
\* rename of the directory or between it and the rmtree
InDropOfDir(p, n) ==
    /\ loc[p].name = n
    /\ \/ pc[p] \in {"da_rename", "da_clear", "da_rmtree"}
       \/ \E k \in DOMAIN stk[p] : stk[p][k] = "da_rmtree"

\* the processes that are creating, renaming or removing the directory of n
DirWorkers(n) == {p \in Procs : InCreateSlotOnDisk(p, n) \/ InDropOfDir(p, n)}

\* C34: at any time at most one process is creating, renaming or removing
\* the directory of a slot name: the executions of CreateSlotOnDisk (from
\* create, save or checkpoint) and of the rename and rmtree in
\* ReplicationSlotDropAcquired for one name exclude each other
OneDirWorker == \A n \in Names : Cardinality(DirWorkers(n)) <= 1


\* ------------------------------------------------- an entry that is reused
\* ReuseSpec: the server is started on a pg_replslot that holds the saved
\* slot a, with or without a catalog_xmin; a session drops, creates,
\* acquires and releases slots of that name and recomputes the required
\* xmin; the server may be killed and started again.
ReuseDirs ==
    {[n \in Names |-> IF n = "a" THEN SavedDir(r) ELSE NoDir] :
        r \in {[ZeroData EXCEPT !.name = "a", !.database = db, !.catalog_xmin = cx,
                                !.restart_lsn = 1] :
                 db \in {InvalidOid, 1}, cx \in {InvalidTransactionId, 2}}}

ReuseCfg ==
    [sessions |-> {1}, names |-> {"a"}, pers |-> {"RS_PERSISTENT"}, dbs |-> {0, 1},
     dummies |-> {FALSE}, faults |-> 0, kills |-> MaxKills, corrupt |-> FALSE,
     server_mode |-> "PRIMARY_MODE", max_slots |-> MaxSlots]

ReuseInit == \E d \in ReuseDirs : InitDown(ReuseCfg, d, [n \in Names |-> NoDir])

ReuseNext ==
    \/ Step \/ Create \/ Acquire \/ Release \/ Drop \/ Restart
    \/ \E s \in Sessions : AcquireAfterDuplicate(s) \/ ComputeRequiredXmin(s)

ReuseSpec == ReuseInit /\ [][ReuseNext]_vars

\* C35: the slot a create makes, also in an entry a dropped slot occupied,
\* has catalog_xmin, effective_catalog_xmin and the candidate fields
\* invalid, in memory and in the record saved in its state file: nothing of
\* the entry's previous occupant is left in it
CreatedSlotCleanStep ==
    \A s \in Sessions :
        (pc[s] = "cr_flip" /\ pc'[s] # "cr_flip" /\ phase' = "run") =>
            LET sl == slots'[loc[s].slot]
            IN /\ sl.in_use
               /\ sl.data.catalog_xmin = InvalidTransactionId
               /\ sl.effective_catalog_xmin = InvalidTransactionId
               /\ sl.candidate_catalog_xmin = InvalidTransactionId
               /\ sl.candidate_xmin_lsn = InvalidXLogRecPtr
               /\ sl.candidate_restart_lsn = InvalidXLogRecPtr
               /\ sl.candidate_restart_valid = InvalidXLogRecPtr
               /\ dir'[loc[s].name].state.slotdata.catalog_xmin = InvalidTransactionId

CreatedSlotClean == [][CreatedSlotCleanStep]_vars


\* ----------------------------------------------- aggregates at quiescence
\* no operation is in progress
Quiescent == phase = "run" /\ \A p \in Procs : pc[p] = "idle"

\* C36: once every release, drop and recomputation has returned, the
\* published xmin, catalog xmin and LSN aggregates are the values a scan of
\* the table computes from the slots in use at that moment: a
\* recomputation that scanned the table earlier has not overwritten what a
\* later one published
AggregatesCurrent ==
    Quiescent =>
        /\ procXmin = XminScan(1, InvalidTransactionId, "xmin")
        /\ procCatXmin = XminScan(1, InvalidTransactionId, "catalog")
        /\ xlogMin = LsnScan(1, <<InvalidXLogRecPtr, InvalidXLogRecPtr, FALSE>>)[1]
        /\ xlogMax = LsnScan(1, <<InvalidXLogRecPtr, InvalidXLogRecPtr, FALSE>>)[2]


\* -------------------------------------------------------- a save that fails
\* an open, a write (with its fsync) or the rename of the SaveSlotToPath of
\* process p fails in this step
SaveFails(p) ==
    /\ pc[p] \in {"sv_open0", "sv_write0", "sv_open1", "sv_write1", "sv_rename"}
    /\ pc'[p] # pc[p] /\ faults' = faults + 1 /\ phase' = "run"

\* the state file of the directory process p saves into
SavedState(p, d, t) == IF loc[p].sv_tmp THEN t[loc[p].sv_dir].state ELSE d[loc[p].sv_dir].state

\* the failed save leaves the state file as it was and holds the io lock
\* no longer
FailedSaveHarmless(p) ==
    /\ SavedState(p, dir', tdir') = SavedState(p, dir, tdir)
    /\ ioLock'[loc[p].sv_slot] # p

FailedSaveStep ==
    \A p \in Procs :
        SaveFails(p) => slots'[loc[p].sv_slot].dirty /\ FailedSaveHarmless(p)

\* C37: when SaveSlotToPath fails with an I/O error (open, write or fsync
\* of state.backup or state.tmp, or the rename), the slot is still dirty
\* when it returns, the state file is unchanged and the slot's io lock is
\* released
FailedSaveKeepsDirty == [][FailedSaveStep]_vars

\* the same without the dirty flag
FailedSaveHarmlessStep == \A p \in Procs : SaveFails(p) => FailedSaveHarmless(p)

FailedSaveIsHarmless == [][FailedSaveHarmlessStep]_vars


\* ------------------------------------------------------------ termination
\* the operations called concurrently
LiveOps ==
    {"create", "acquire", "release", "drop", "save", "persist", "mark_dirty",
     "checkpoint", "xmin", "xmin_locked", "lsn"}

\* no file call of the path returns an error
NoIOFailure(path) == \A k \in DOMAIN path : path[k].kind # "failed"

\* the lock events of a path: its file calls return
LockEvents(path) == SelectSeq(path, LAMBDA ev : ev.e # "io")

\* a process calls one operation, on any slot and along any of its paths
\* (the operation is known by its lock events)
LockCallOnce(s) ==
    /\ Running(s) /\ s \in cfg.sessions /\ pc[s] = "idle" /\ res[s] = ResInit
    /\ \E i \in SlotIds : \E op \in LiveOps : \E path \in LockPaths(i)[op] :
         /\ NoIOFailure(path)
         /\ loc' = [loc EXCEPT ![s] = [LocInit EXCEPT !.slot = i, !.path = LockEvents(path)]]
         /\ res' = [res EXCEPT ![s] = Started("called", "")]
    /\ pc' = [pc EXCEPT ![s] = "lock"]
    /\ stk' = [stk EXCEPT ![s] = <<"done">>]
    /\ UNCHANGED <<slots, my, locks, disk, published, env, faults, hist>>

\* the process runs the next event of its path, or returns
LockRun(s) == LockAcquire(s) \/ LockRelease(s) \/ LockError(s) \/ LockReturn(s)

\* max_replication_slots of LiveSpec: the operations meet at one entry
LiveSlots == 1

LiveCfg ==
    [sessions |-> Sessions, names |-> {}, pers |-> {}, dbs |-> {}, dummies |-> {},
     faults |-> 0, kills |-> 0, corrupt |-> FALSE, server_mode |-> "PRIMARY_MODE",
     max_slots |-> LiveSlots]

LiveInit == InitWith(LiveCfg)

LiveNext == \E s \in Sessions : LockCallOnce(s) \/ LockRun(s)

\* LiveSpec: each process calls at most one operation; a process that can
\* take its next step (its lock is free, or the step needs none) takes it.
LiveSpec == LiveInit /\ [][LiveNext]_vars /\ \A s \in Sessions : WF_vars(LockRun(s))

\* process s holds no lock
HoldsNoLock(s) ==
    /\ loc[s].held = <<>>
    /\ allocEx # s /\ s \notin allocSh
    /\ \A i \in SlotIds : ioLock[i] # s

\* a return leaves no lock held: a normal return holds none, and an ERROR
\* holds no spinlock (the unwinding releases the other locks)
ReturnsWithoutLock ==
    \A s \in Sessions :
        pc[s] = "lock" /\ pc'[s] = "idle" =>
            /\ res'[s].status = "ok" => loc[s].held = <<>>
            /\ \A k \in DOMAIN loc[s].held : loc[s].held[k].lock # "mutex"
            /\ HoldsNoLock(s)'

\* C38: under fair scheduling, the operations called concurrently all
\* return, and a process that has returned holds no lock: no state is a
\* deadlock over the allocation lock, the control lock, ProcArrayLock, the
\* upgrade lock, the io locks and the spinlocks
OperationsReturn ==
    /\ \A s \in Sessions : (pc[s] = "lock") ~> (pc[s] = "idle")
    /\ [][ReturnsWithoutLock]_vars

\* a process waits for a lock that another process holds
LockWaitSeen ==
    \E s \in Sessions :
        /\ pc[s] = "lock" /\ loc[s].path # <<>>
        /\ Head(loc[s].path).e = "acq"
        /\ ~Grantable(s, Head(loc[s].path))

====
